---- MODULE Spec2Model ----
(***************************************************************************)
(* A model of nbconvert's markdown-with-math pipeline                      *)
(* (nbconvert/filters/markdown_mistune.py): MathBlockParser,               *)
(* MathInlineParser and IPythonRenderer, with add_anchor of                *)
(* filters/strings.py.                                                     *)
(*                                                                         *)
(* Text is a sequence of one-character strings.  Positions are 1-based: a  *)
(* match that starts at p and "ends" at e covers s[p] .. s[e-1], as        *)
(* m.start()+1 and m.end()+1 do in the Python code.                        *)
(***************************************************************************)
EXTENDS Integers, Sequences, FiniteSets, TLC

VARIABLES
    src,        \* BlockState.src: the cell source, newline-terminated
    cursor,     \* BlockState.cursor
    tokens,     \* BlockState.tokens: the block tokens
    pc,         \* position of the conversion: "block", "inline", "render", "done"
    para,       \* index in tokens of the paragraph the inline parser works on
    isrc,       \* InlineState.src: the stripped text of that paragraph
    ioff,       \* where isrc starts in src (history: isrc[k] = src[ioff + k])
    ipos,       \* the inline parser's scan position in isrc
    itokens,    \* InlineState.tokens of all paragraphs, in order
    m,          \* the match the scanner found from the current position on
    out,        \* the rendering of the inline tokens, in order
    embed_images,           \* IPythonRenderer.embed_images
    exclude_anchor_links,   \* IPythonRenderer.exclude_anchor_links
    anchor_link_text,       \* IPythonRenderer.anchor_link_text
    path,                   \* IPythonRenderer.path
    attachments,            \* IPythonRenderer.attachments: name -> <<mime, data>> pairs
    ret,        \* the renderer call that has just ended: its arguments and outcome
    allow_chromium_download,    \* WebPDFExporter.allow_chromium_download
    chromium,   \* whether a suitable chromium executable is on the system
    nb,         \* the notebook handed to from_notebook_node: the kinds of its cells
    resources,  \* the resources handed to it and, at the end, returned by it
    epc,        \* position of from_notebook_node: "check", "convert", "puppeteer", "finish", "done"
    trace,      \* the calls from_notebook_node has made, in order
    result,     \* what from_notebook_node returned or raised
    format,         \* QtExporter.format: the last part of output_mimetype
    paginate,       \* QtExporter.paginate
    platform,       \* sys.platform
    QT_INSTALLED,   \* qt_screenshot.QT_INSTALLED
    qhtml,          \* the html handed to run_pyqtwebengine
    temp_files,     \* the files of the temporary directory
    qpc,        \* position of run_pyqtwebengine: "create", "write", "launch", "capture", "unlink", "done"
    pending,    \* the exception the try block of run_pyqtwebengine has raised, "" for none
    qresult,    \* what run_pyqtwebengine returned or raised
    ltext,      \* the text handed to rm_math_space
    lret        \* the call of rm_math_space that has ended: its argument and its value

pvars == <<src, cursor, tokens, pc, para, isrc, ioff, ipos, itokens, m, out>>

rvars == <<embed_images, exclude_anchor_links, anchor_link_text, path, attachments>>

evars == <<allow_chromium_download, chromium, nb, resources, epc, trace, result>>

qvars == <<format, paginate, platform, QT_INSTALLED, qhtml, temp_files, qpc, pending, qresult>>

lvars == <<ltext, lret>>

\* ------------------------------------------------------------------ text

BS == "\\"
NL == "\n"
TAB == "\t"

Lower == {"a", "b", "c", "d", "e", "f", "g", "h", "i", "j", "k", "l", "m",
          "n", "o", "p", "q", "r", "s", "t", "u", "v", "w", "x", "y", "z"}

\* string.punctuation (without the double quote and the backquote, which no text of the model has),
\* the class the escape rule of the inline parser allows after a backslash
Punctuation == {"!", "#", "$", "%", "&", "'", "(", ")", "*", "+", ",",
                "-", ".", "/", ":", ";", "<", "=", ">", "?", "@", "[", "\\",
                "]", "^", "_", "{", "|", "}", "~"}

\* the white space of the model's texts: what str.strip and the pattern \s remove
Whitespace == {" ", NL, TAB}

\* s[p .. p+Len(w)-1] = w
At(s, p, w) ==
    /\ p >= 1
    /\ p + Len(w) - 1 <= Len(s)
    /\ \A k \in 1..Len(w) : s[p + k - 1] = w[k]

\* the character before position p, "" at the start of the text
Prev(s, p) == IF p > 1 /\ p - 1 <= Len(s) THEN s[p - 1] ELSE ""

\* s[a .. b-1]
Slice(s, a, b) == SubSeq(s, a, b - 1)

RECURSIVE Flatten(_)
Flatten(ss) == IF ss = <<>> THEN <<>> ELSE Head(ss) \o Flatten(Tail(ss))

NoMatch == [ok |-> FALSE, start |-> 0, end |-> 0, name |-> <<>>, body |-> <<>>]
Match(p, e, name, body) ==
    [ok |-> TRUE, start |-> p, end |-> e, name |-> name, body |-> body]

\* the least q >= from at which the closing delimiter w stands, when after is
\* TRUE not right after a character of bad; 0 when there is none: the lazy .*?
\* of the math patterns followed by their closing delimiter
RECURSIVE Closing(_, _, _, _)
Closing(s, from, w, bad) ==
    IF from + Len(w) - 1 > Len(s) THEN 0
    ELSE IF At(s, from, w) /\ Prev(s, from) \notin bad THEN from
    ELSE Closing(s, from + 1, w, bad)

\* an opening delimiter at p, not right after a character of badOpen, then the
\* shortest body of at least minBody characters that the closing delimiter
\* follows: open(?P<body>.*?)close with look-behinds (?<![badOpen]), (?<![badClose])
Delimited(s, p, open, close, badOpen, badClose, minBody) ==
    IF At(s, p, open) /\ Prev(s, p) \notin badOpen
    THEN LET q == Closing(s, p + Len(open) + minBody, close, badClose)
         IN  IF q = 0 THEN NoMatch
             ELSE Match(p, q + Len(close), <<>>, Slice(s, p + Len(open), q))
    ELSE NoMatch

\* the longest run of lowercase letters that starts at p: [a-z]*
RECURSIVE LowerRun(_, _)
LowerRun(s, p) ==
    IF p <= Len(s) /\ s[p] \in Lower THEN <<s[p]>> \o LowerRun(s, p + 1) ELSE <<>>

\* [a-z]*\*? at p: the letters, then a star when one follows them
EnvName(s, p) ==
    LET letters == LowerRun(s, p)
        q == p + Len(letters)
    IN  IF q <= Len(s) /\ s[q] = "*" THEN Append(letters, "*") ELSE letters

BEGIN_OPEN == <<"\\", "b", "e", "g", "i", "n", "{">>
END_OPEN == <<"\\", "e", "n", "d", "{">>

\* the least q >= from at which some \end{...} stands, 0 when there is none
RECURSIVE ClosingAnyEnd(_, _)
ClosingAnyEnd(s, from) ==
    IF from > Len(s) THEN 0
    ELSE IF /\ At(s, from, END_OPEN)
            /\ At(s, from + Len(END_OPEN) + Len(EnvName(s, from + Len(END_OPEN))),
                  <<"}">>)
    THEN from
    ELSE ClosingAnyEnd(s, from + 1)

\* Environment with the back-reference (?P=name) lost: any \end{...} closes
Environment_AnyEnd(s, p) ==
    IF At(s, p, BEGIN_OPEN)
    THEN LET name == EnvName(s, p + Len(BEGIN_OPEN))
             b == p + Len(BEGIN_OPEN) + Len(name)
         IN  IF b <= Len(s) /\ s[b] = "}"
             THEN LET q == ClosingAnyEnd(s, b + 1)
                  IN  IF q = 0 THEN NoMatch
                      ELSE Match(p, q + Len(END_OPEN)
                                      + Len(EnvName(s, q + Len(END_OPEN))) + 1,
                                 name, Slice(s, b + 1, q))
             ELSE NoMatch
    ELSE NoMatch

\* \\begin\{(?P<name>[a-z]*\*?)\}(?P<body>.*?)\\end\{(?P=name)\} at p
Environment(s, p) ==
    IF At(s, p, BEGIN_OPEN)
    THEN LET name == EnvName(s, p + Len(BEGIN_OPEN))
             b == p + Len(BEGIN_OPEN) + Len(name)
         IN  IF b <= Len(s) /\ s[b] = "}"
             THEN LET q == Closing(s, b + 1, END_OPEN \o name \o <<"}">>, {})
                  IN  IF q = 0 THEN NoMatch
                      ELSE Match(p, q + Len(END_OPEN) + Len(name) + 1, name,
                                 Slice(s, b + 1, q))
             ELSE NoMatch
    ELSE NoMatch

\* ------------------------------------------------------------------ MathBlockParser

\* MULTILINE_MATH without its first alternative, the $$...$$ one
MULTILINE_MATH_NoTex(s, p) ==
    LET latex == Delimited(s, p, <<BS, BS, "[">>, <<BS, BS, "]">>, {}, {}, 0)
    IN  IF latex.ok THEN latex ELSE Environment(s, p)

\* MULTILINE_MATH without _dotall: no alternative matches across a newline
MULTILINE_MATH_SingleLine(s, p) ==
    LET tex == Delimited(s, p, <<"$", "$">>, <<"$", "$">>, {BS}, {BS}, 0)
        latex == Delimited(s, p, <<BS, BS, "[">>, <<BS, BS, "]">>, {}, {}, 0)
        env == Environment(s, p)
        OneLine(r) == r.ok /\ \A k \in r.start..(r.end - 1) : s[k] # NL
    IN  IF OneLine(tex) THEN tex
        ELSE IF OneLine(latex) THEN latex
        ELSE IF OneLine(env) THEN env
        ELSE NoMatch

\* MULTILINE_MATH at p: the first of its three alternatives that matches there
MULTILINE_MATH(s, p) ==
    LET tex == Delimited(s, p, <<"$", "$">>, <<"$", "$">>, {BS}, {BS}, 0)
        latex == Delimited(s, p, <<BS, BS, "[">>, <<BS, BS, "]">>, {}, {}, 0)
    IN  IF tex.ok THEN tex
        ELSE IF latex.ok THEN latex
        ELSE Environment(s, p)

\* the end of the run of blank lines that starts at p, p when there is none:
\* ([ \t\v\f]*\n)+ taken greedily
RECURSIVE BlankRun(_, _)
BlankRun(s, p) ==
    LET RECURSIVE SkipBlanks(_)
        SkipBlanks(q) ==
            IF q <= Len(s) /\ s[q] \in {" ", "\t"} THEN SkipBlanks(q + 1) ELSE q
        r == SkipBlanks(p)
    IN  IF r <= Len(s) /\ s[r] = NL THEN BlankRun(s, r + 1) ELSE p

\* BlockParser.BLANK_LINE, (^[ \t\v\f]*\n)+ under re.M, at p
BLANK_LINE(s, p) ==
    IF (p = 1 \/ Prev(s, p) = NL) /\ BlankRun(s, p) > p
    THEN Match(p, BlankRun(s, p), <<>>, <<>>)
    ELSE NoMatch

\* str.strip(' \r\n\t\f')
RECURSIVE Lead(_)
Lead(t) == IF t # <<>> /\ Head(t) \in Whitespace THEN 1 + Lead(Tail(t)) ELSE 0

RECURSIVE RStrip(_)
RStrip(t) ==
    IF t # <<>> /\ t[Len(t)] \in Whitespace THEN RStrip(SubSeq(t, 1, Len(t) - 1))
    ELSE t

Strip(t) == RStrip(SubSeq(t, Lead(t) + 1, Len(t)))

\* the end of the run of spaces that starts at p
RECURSIVE SpaceRun(_, _)
SpaceRun(s, p) == IF p <= Len(s) /\ s[p] = " " THEN SpaceRun(s, p + 1) ELSE p

\* ^ under re.M: the start of the text or of a line
LineStart(s, p) == p = 1 \/ Prev(s, p) = NL

\* $ under re.M from p on: the position of the newline that ends the line
RECURSIVE LineEnd(_, _)
LineEnd(s, p) == IF p > Len(s) \/ s[p] = NL THEN p ELSE LineEnd(s, p + 1)

\* the end of the run of # that starts at p
RECURSIVE HashRun(_, _)
HashRun(s, p) == IF p <= Len(s) /\ s[p] = "#" THEN HashRun(s, p + 1) ELSE p

\* AXT_HEADING with any number of # taken as the marker
AXT_HEADING_AnyHashes(s, p) ==
    LET h == SpaceRun(s, p)
        t == HashRun(s, h)
    IN  IF LineStart(s, p) /\ h - p <= 3 /\ t - h >= 1
        THEN Match(p, LineEnd(s, t), Slice(s, h, t), Slice(s, t, LineEnd(s, t)))
        ELSE NoMatch

\* AXT_HEADING_WITHOUT_LEADING_SPACES at p: at most three spaces, one to six #
\* that no # follows, and the rest of the line (group axt_2, the body)
AXT_HEADING(s, p) ==
    LET h == SpaceRun(s, p)
        t == HashRun(s, h)
    IN  IF LineStart(s, p) /\ h - p <= 3 /\ t - h >= 1 /\ t - h <= 6
        THEN Match(p, LineEnd(s, t), Slice(s, h, t), Slice(s, t, LineEnd(s, t)))
        ELSE NoMatch

\* the end of the run of newlines that starts at p
RECURSIVE NewlineRun(_, _)
NewlineRun(s, p) == IF p <= Len(s) /\ s[p] = NL THEN NewlineRun(s, p + 1) ELSE p

\* (?: {4}| *\t)[^\n]+(?:\n+|$) at p: an indented line with its newlines; the
\* position after it, 0 when p does not begin one
IndentedLine(s, p) ==
    LET h == SpaceRun(s, p)
        c == IF h - p >= 4 THEN p + 4
             ELSE IF h <= Len(s) /\ s[h] = TAB THEN h + 1
             ELSE 0
    IN  IF c = 0 \/ c > Len(s) \/ s[c] = NL THEN 0
        ELSE NewlineRun(s, LineEnd(s, c))

\* ((?:indented line)|\s)* from p on, taken greedily
RECURSIVE IndentedRun(_, _)
IndentedRun(s, p) ==
    IF p > Len(s) THEN p
    ELSE IF IndentedLine(s, p) # 0 THEN IndentedRun(s, IndentedLine(s, p))
    ELSE IF s[p] \in Whitespace THEN IndentedRun(s, p + 1)
    ELSE p

\* BlockParser.INDENT_CODE at p: a line indented by four spaces or a tab, and
\* the indented lines and the white space after it; the body is the match
INDENT_CODE(s, p) ==
    IF LineStart(s, p) /\ IndentedLine(s, p) # 0
    THEN Match(p, IndentedRun(s, IndentedLine(s, p)), <<>>,
               Slice(s, p, IndentedRun(s, IndentedLine(s, p))))
    ELSE NoMatch

\* BlockParser.BLOCK_QUOTE, ^ {0,3}>(.*?)$, at p: the body is the rest of the
\* line
BLOCK_QUOTE(s, p) ==
    LET h == SpaceRun(s, p)
    IN  IF LineStart(s, p) /\ h - p <= 3 /\ h <= Len(s) /\ s[h] = ">"
        THEN Match(p, LineEnd(s, h), <<>>, Slice(s, h + 1, LineEnd(s, h)))
        ELSE NoMatch

\* BlockParser.LIST, ^ {0,3}([*+-]|\d{1,9}[.)])([ \t]*|[ \t].+)$, at p, for the
\* bullet markers (no text of the model has a digit at the start of a line):
\* the marker, then nothing but blanks or a blank and the item's text
LIST(s, p) ==
    LET h == SpaceRun(s, p)
        e == LineEnd(s, h)
    IN  IF /\ LineStart(s, p) /\ h - p <= 3 /\ h <= Len(s)
           /\ s[h] \in {"*", "+", "-"}
           /\ (h + 1 = e \/ s[h + 1] \in {" ", TAB})
        THEN Match(p, e, <<s[h]>>, Slice(s, h + 1, e))
        ELSE NoMatch

\* what the compiled block scanner finds at p: the first rule of DEFAULT_RULES
\* that matches there, multiline_math before the rules of BlockParser.  Of
\* BlockParser.DEFAULT_RULES the rules that can match a text of the model's
\* alphabet are listed, in their order.
BlockRuleAt(s, p) ==
    LET math == MULTILINE_MATH(s, p)
        code == INDENT_CODE(s, p)
        axt == AXT_HEADING(s, p)
        quote == BLOCK_QUOTE(s, p)
        list == LIST(s, p)
        blank == BLANK_LINE(s, p)
    IN  IF math.ok THEN [rule |-> "multiline_math", m |-> math]
        ELSE IF code.ok THEN [rule |-> "indent_code", m |-> code]
        ELSE IF axt.ok THEN [rule |-> "axt_heading", m |-> axt]
        ELSE IF quote.ok THEN [rule |-> "block_quote", m |-> quote]
        ELSE IF list.ok THEN [rule |-> "list", m |-> list]
        ELSE IF blank.ok THEN [rule |-> "blank_line", m |-> blank]
        ELSE [rule |-> "none", m |-> NoMatch]

\* sc.search(state.src, state.cursor): the leftmost position with a match
RECURSIVE BlockSearch(_, _)
BlockSearch(s, p) ==
    IF p > Len(s) THEN [rule |-> "none", m |-> NoMatch]
    ELSE LET r == BlockRuleAt(s, p)
         IN  IF r.rule # "none" THEN r ELSE BlockSearch(s, p + 1)

\* BlockState.add_paragraph: the text joins the paragraph that is the last token
add_paragraph(toks, text, from) ==
    IF toks # <<>> /\ toks[Len(toks)].type = "paragraph"
    THEN [toks EXCEPT ![Len(toks)].text = @ \o text]
    ELSE Append(toks, [type |-> "paragraph", text |-> text, from |-> from])

\* the text between the cursor and a match becomes paragraph text first
AddHole(toks, s, from, to) ==
    IF to > from THEN add_paragraph(toks, Slice(s, from, to), from) ELSE toks

\* ------------------------------------------------------------------ MathInlineParser

BLOCK_MATH_TEX(s, p) == Delimited(s, p, <<"$", "$">>, <<"$", "$">>, {BS}, {BS}, 0)

\* BLOCK_MATH_LATEX with one backslash before each bracket
BLOCK_MATH_LATEX_OneBackslash(s, p) ==
    Delimited(s, p, <<BS, "[">>, <<BS, "]">>, {BS}, {BS}, 0)

BLOCK_MATH_LATEX(s, p) ==
    Delimited(s, p, <<BS, BS, "[">>, <<BS, BS, "]">>, {BS}, {BS}, 0)

\* INLINE_MATH_TEX with a guard for currency: no digit right after the opening $
INLINE_MATH_TEX_Guarded(s, p) ==
    IF p + 1 <= Len(s) /\ s[p + 1] \in {"0", "1", "2", "3", "4", "5", "6", "7", "8", "9"}
    THEN NoMatch
    ELSE Delimited(s, p, <<"$">>, <<"$">>, {"$", BS}, {"$", BS}, 1)

\* INLINE_MATH_TEX without its two look-behinds
INLINE_MATH_TEX_NoLookBehind(s, p) == Delimited(s, p, <<"$">>, <<"$">>, {}, {}, 1)

INLINE_MATH_TEX(s, p) == Delimited(s, p, <<"$">>, <<"$">>, {"$", BS}, {"$", BS}, 1)

INLINE_MATH_LATEX(s, p) ==
    Delimited(s, p, <<BS, BS, "(">>, <<BS, BS, ")">>, {BS}, {BS}, 0)

LATEX_ENVIRONMENT(s, p) == Environment(s, p)

\* the end of the white space that starts at p: \s*
RECURSIVE SkipSpace(_, _)
SkipSpace(s, p) ==
    IF p <= Len(s) /\ s[p] \in Whitespace THEN SkipSpace(s, p + 1) ELSE p

\* the end of the run of escaped punctuation that starts at p: (?:\\[punctuation])+
RECURSIVE EscapeRun(_, _)
EscapeRun(s, p) ==
    IF p + 1 <= Len(s) /\ s[p] = BS /\ s[p + 1] \in Punctuation
    THEN EscapeRun(s, p + 2) ELSE p

\* unescape_char: an escaped run without its backslashes
RECURSIVE Unescape(_)
Unescape(t) ==
    IF Len(t) < 2 THEN t ELSE <<t[2]>> \o Unescape(SubSeq(t, 3, Len(t)))

\* The rules of InlineParser.DEFAULT_RULES that can match a text of the model's
\* alphabet, in their order: escape, link, linebreak, and softbreak (appended
\* because hard_wrap is False).  kind names the rule.
GenericAt(s, p) ==
    IF EscapeRun(s, p) > p
    THEN [kind |-> "escape", m |-> Match(p, EscapeRun(s, p), <<>>, <<>>)]
    ELSE IF p <= Len(s) /\ s[p] = "["
    THEN [kind |-> "link", m |-> Match(p, p + 1, <<>>, <<>>)]
    ELSE IF \/ p + 1 <= Len(s) /\ s[p] = BS /\ s[p + 1] = NL
            \/ /\ SpaceRun(s, p) >= p + 2
               /\ SpaceRun(s, p) <= Len(s)
               /\ s[SpaceRun(s, p)] = NL
    THEN [kind |-> "linebreak",
          m |-> Match(p, SkipSpace(s, IF s[p] = BS THEN p + 2
                                      ELSE SpaceRun(s, p) + 1), <<>>, <<>>)]
    ELSE IF p <= Len(s) /\ s[p] = NL
    THEN [kind |-> "softbreak", m |-> Match(p, SkipSpace(s, p + 1), <<>>, <<>>)]
    ELSE [kind |-> "none", m |-> NoMatch]

\* InlineRuleAt with inline_math_tex put before block_math_tex
InlineRuleAt_InlineFirst(s, p) ==
    LET bt == BLOCK_MATH_TEX(s, p)
        bl == BLOCK_MATH_LATEX(s, p)
        it == INLINE_MATH_TEX(s, p)
        il == INLINE_MATH_LATEX(s, p)
        le == LATEX_ENVIRONMENT(s, p)
        ge == GenericAt(s, p)
    IN  IF it.ok THEN [rule |-> "inline_math_tex", m |-> it]
        ELSE IF bt.ok THEN [rule |-> "block_math_tex", m |-> bt]
        ELSE IF bl.ok THEN [rule |-> "block_math_latex", m |-> bl]
        ELSE IF il.ok THEN [rule |-> "inline_math_latex", m |-> il]
        ELSE IF le.ok THEN [rule |-> "latex_environment", m |-> le]
        ELSE [rule |-> ge.kind, m |-> ge.m]

\* what the compiled inline scanner finds at p: the first rule of DEFAULT_RULES
\* that matches there, the five math rules before every inherited rule
InlineRuleAt(s, p) ==
    LET bt == BLOCK_MATH_TEX(s, p)
        bl == BLOCK_MATH_LATEX(s, p)
        it == INLINE_MATH_TEX(s, p)
        il == INLINE_MATH_LATEX(s, p)
        le == LATEX_ENVIRONMENT(s, p)
        ge == GenericAt(s, p)
    IN  IF bt.ok THEN [rule |-> "block_math_tex", m |-> bt]
        ELSE IF bl.ok THEN [rule |-> "block_math_latex", m |-> bl]
        ELSE IF it.ok THEN [rule |-> "inline_math_tex", m |-> it]
        ELSE IF il.ok THEN [rule |-> "inline_math_latex", m |-> il]
        ELSE IF le.ok THEN [rule |-> "latex_environment", m |-> le]
        ELSE [rule |-> ge.kind, m |-> ge.m]

\* sc.search(src, pos): the leftmost position with a match
RECURSIVE InlineSearch(_, _)
InlineSearch(s, p) ==
    IF p > Len(s) THEN [rule |-> "none", m |-> NoMatch]
    ELSE LET r == InlineRuleAt(s, p)
         IN  IF r.rule # "none" THEN r ELSE InlineSearch(s, p + 1)

\* Tok with the escape rule applied to the raw of a math token: its backslashes
\* are dropped
Tok_Unescaped(type, raw, name, from, to) ==
    [type |-> type,
     raw |-> IF type \in {"block_math", "inline_math", "latex_environment"}
             THEN SelectSeq(raw, LAMBDA c : c # BS) ELSE raw,
     name |-> name, from |-> from, to |-> to]

\* an inline token; from and to locate its source in src (history)
Tok(type, raw, name, from, to) ==
    [type |-> type, raw |-> raw, name |-> name, from |-> from, to |-> to]

\* process_text of the text between the scan position and a match
TextHole(toks, s, off, from, to) ==
    IF to > from
    THEN Append(toks, Tok("text", Slice(s, from, to), <<>>, off + from, off + to))
    ELSE toks

\* the types of the block tokens whose text the inline parser is run on: the
\* paragraph, the heading, and the text of a list item or of a block quote
TextTypes == {"paragraph", "heading", "list", "block_quote"}

\* the index of the first token with text after token k, 0 when there is none
RECURSIVE NextPara(_, _)
NextPara(toks, k) ==
    IF k + 1 > Len(toks) THEN 0
    ELSE IF toks[k + 1].type \in TextTypes THEN k + 1
    ELSE NextPara(toks, k + 1)

\* ------------------------------------------------------------------ IPythonRenderer (math)

\* html.escape with quote=True: the apostrophe is replaced as well
html_escape_Quoted(t) ==
    Flatten([k \in 1..Len(t) |->
                IF t[k] = "&" THEN <<"&", "a", "m", "p", ";">>
                ELSE IF t[k] = "<" THEN <<"&", "l", "t", ";">>
                ELSE IF t[k] = ">" THEN <<"&", "g", "t", ";">>
                ELSE IF t[k] = "'" THEN <<"&", "#", "x", "2", "7", ";">>
                ELSE <<t[k]>>])

\* html.escape(text, quote=False): only &, < and > are replaced
html_escape(t) ==
    Flatten([k \in 1..Len(t) |->
                IF t[k] = "&" THEN <<"&", "a", "m", "p", ";">>
                ELSE IF t[k] = "<" THEN <<"&", "l", "t", ";">>
                ELSE IF t[k] = ">" THEN <<"&", "g", "t", ";">>
                ELSE <<t[k]>>])

escape_html(t) == html_escape(t)

block_math(body) == <<"$", "$">> \o escape_html(body) \o <<"$", "$">>

inline_math(body) == <<"$">> \o escape_html(body) \o <<"$">>

\* latex_environment that does not escape the body
latex_environment_Unescaped(name, body) ==
    BEGIN_OPEN \o escape_html(name) \o <<"}">> \o body
        \o END_OPEN \o escape_html(name) \o <<"}">>

latex_environment(name, body) ==
    BEGIN_OPEN \o escape_html(name) \o <<"}">> \o escape_html(body)
        \o END_OPEN \o escape_html(name) \o <<"}">>

\* the renderer's method for a token: raw is the argument of the math methods,
\* name and body the attrs of latex_environment; every other token goes to a
\* method of the base renderer, which is not modelled and keeps its raw text
RenderToken(tok) ==
    IF tok.type = "block_math" THEN block_math(tok.raw)
    ELSE IF tok.type = "inline_math" THEN inline_math(tok.raw)
    ELSE IF tok.type = "latex_environment" THEN latex_environment(tok.name, tok.raw)
    ELSE tok.raw

\* ------------------------------------------------------------------ IPythonRenderer (calls)

ATTACHMENT_PREFIX == <<"a", "t", "t", "a", "c", "h", "m", "e", "n", "t", ":">>

SVG == <<"i", "m", "a", "g", "e", "/", "s", "v", "g", "+", "x", "m", "l">>
PNG == <<"i", "m", "a", "g", "e", "/", "p", "n", "g">>
JPEG == <<"i", "m", "a", "g", "e", "/", "j", "p", "e", "g">>
GIF == <<"i", "m", "a", "g", "e", "/", "g", "i", "f">>

\* a call that returned value, and a call that raised exc; calls are the
\* collaborators the call reached
Returned(op, args, value, calls) ==
    [op |-> op, args |-> args, outcome |-> "return", value |-> value,
     exc |-> "", calls |-> calls]
Raised(op, args, exc, calls) ==
    [op |-> op, args |-> args, outcome |-> "raise", value |-> <<>>,
     exc |-> exc, calls |-> calls]

\* the fields of the renderer
Self ==
    [embed_images |-> embed_images, exclude_anchor_links |-> exclude_anchor_links,
     anchor_link_text |-> anchor_link_text, path |-> path, attachments |-> attachments]

\* an image method that takes the attachments out of the map as it reads them
SelfAfter_ImagePops(op, self) ==
    IF op = "image" THEN [self EXCEPT !.attachments = <<>>] ELSE self

\* the fields after a call of method op, whether it returns or raises: the
\* methods read self.embed_images, self.exclude_anchor_links,
\* self.anchor_link_text, self.path and self.attachments[name]; none assigns
\* to a field, and the map is only subscripted
SelfAfter(op, self) == self

\* the renderer's fields become those of self
Becomes(self) ==
    /\ embed_images' = self.embed_images
    /\ exclude_anchor_links' = self.exclude_anchor_links
    /\ anchor_link_text' = self.anchor_link_text
    /\ path' = self.path
    /\ attachments' = self.attachments

\* the renderer between two calls
Idle == [op |-> "", args |-> <<>>, outcome |-> "idle", value |-> <<>>,
         exc |-> "", calls |-> {}]

\* the files the conversion can see: regular files with their bytes, directories
Files ==
    (<<"a", ".", "p", "n", "g">> :> [kind |-> "file", data |-> <<137, 80, 78, 71>>])
    @@ (<<"n", "b", "/", "a", ".", "p", "n", "g">> :> [kind |-> "file", data |-> <<255, 216>>])
    @@ (<<"n", "b", "/", "x">> :> [kind |-> "file", data |-> <<0>>])
    @@ (<<"d">> :> [kind |-> "dir", data |-> <<>>])
    @@ (<<"n", "b", "/", "d">> :> [kind |-> "dir", data |-> <<>>])
    @@ (<<"n", "b", "/">> :> [kind |-> "dir", data |-> <<>>])
    @@ (ATTACHMENT_PREFIX \o <<"f", "i", "g", "1">> :> [kind |-> "file", data |-> <<1>>])
    @@ (<<"n", "b", "/">> \o ATTACHMENT_PREFIX \o <<"f", "i", "g", "1">> :> [kind |-> "file", data |-> <<1>>])

\* os.path.join(self.path, src)
JoinPath(base, name) ==
    IF name # <<>> /\ name[1] = "/" THEN name
    ELSE IF base = <<>> \/ base[Len(base)] = "/" THEN base \o name
    ELSE base \o <<"/">> \o name

\* s ends with w
EndsWith(s, w) == Len(s) >= Len(w) /\ At(s, Len(s) - Len(w) + 1, w)

\* mimetypes.guess_type(src_path)[0]: by the extension, None without a known one
GuessType(name) ==
    IF EndsWith(name, <<".", "p", "n", "g">>) THEN PNG
    ELSE IF EndsWith(name, <<".", "s", "v", "g">>) THEN SVG
    ELSE IF EndsWith(name, <<".", "j", "p", "g">>) THEN JPEG
    ELSE <<"N", "o", "n", "e">>

B64Alphabet ==
    <<"A", "B", "C", "D", "E", "F", "G", "H", "I", "J", "K", "L", "M", "N", "O", "P",
      "Q", "R", "S", "T", "U", "V", "W", "X", "Y", "Z", "a", "b", "c", "d", "e", "f",
      "g", "h", "i", "j", "k", "l", "m", "n", "o", "p", "q", "r", "s", "t", "u", "v",
      "w", "x", "y", "z", "0", "1", "2", "3", "4", "5", "6", "7", "8", "9", "+", "/">>

\* base64.b64encode
RECURSIVE b64encode(_)
b64encode(bytes) ==
    LET c(k) == B64Alphabet[k + 1]
    IN  IF bytes = <<>> THEN <<>>
        ELSE IF Len(bytes) = 1
        THEN <<c(bytes[1] \div 4), c((bytes[1] % 4) * 16), "=", "=">>
        ELSE IF Len(bytes) = 2
        THEN <<c(bytes[1] \div 4), c((bytes[1] % 4) * 16 + bytes[2] \div 16),
               c((bytes[2] % 16) * 4), "=">>
        ELSE <<c(bytes[1] \div 4), c((bytes[1] % 4) * 16 + bytes[2] \div 16),
               c((bytes[2] % 16) * 4 + bytes[3] \div 64), c(bytes[3] % 64)>>
             \o b64encode(SubSeq(bytes, 4, Len(bytes)))

DataUrl(mime, data) ==
    <<"d", "a", "t", "a", ":">> \o mime
        \o <<";", "b", "a", "s", "e", "6", "4", ",">> \o data

\* IPythonRenderer._src_to_base64: ok FALSE is the None of a file that does not
\* exist; a path that exists and cannot be opened for reading raises OSError
src_to_base64(name) ==
    LET src_path == JoinPath(path, name)
    IN  IF src_path \notin DOMAIN Files
        THEN [ok |-> FALSE, exc |-> "", url |-> <<>>]
        ELSE IF Files[src_path].kind # "file"
        THEN [ok |-> FALSE, exc |-> "OSError", url |-> <<>>]
        ELSE [ok |-> TRUE, exc |-> "",
              url |-> DataUrl(GuessType(src_path), b64encode(Files[src_path].data))]

\* the position in entry of the first pair whose type is mime, 0 without one
RECURSIVE IndexOfType(_, _, _)
IndexOfType(entry, mime, k) ==
    IF k > Len(entry) THEN 0
    ELSE IF entry[k][1] = mime THEN k
    ELSE IndexOfType(entry, mime, k + 1)

\* attachment[mime]
DataOf(entry, mime) == entry[IndexOfType(entry, mime, 1)][2]

\* mime in attachment
HasType(entry, mime) == IndexOfType(entry, mime, 1) # 0

preferred_mime_types == <<SVG, PNG, JPEG>>

RECURSIVE PreferredType(_, _)
\* a choice of type without preference: the first type of the attachment
PreferredType_FirstKey(entry, k) ==
    IF entry = <<>> THEN <<>> ELSE entry[1][1]

\* the for ... else of image: the first preferred type the attachment has, else
\* the first type of the attachment; <<>> when list(attachment.keys())[0] fails
\* because the attachment has no type
PreferredType(entry, k) ==
    IF k > Len(preferred_mime_types)
    THEN IF entry = <<>> THEN <<>> ELSE entry[1][1]
    ELSE IF HasType(entry, preferred_mime_types[k]) THEN preferred_mime_types[k]
    ELSE PreferredType(entry, k + 1)

\* an image that looks on the file system first, whatever the scheme of the URL
image_FilesFirst(text, url, title) ==
    LET args == [text |-> text, url |-> url, title |-> title]
        base64_url == src_to_base64(url)
    IN  Returned("image", args,
                 [text |-> text, title |-> title,
                  url |-> IF base64_url.ok THEN base64_url.url ELSE url],
                 {"os.path.exists", "super.image"})

\* an image that hands every URL to the base renderer as it is
image_PassThrough(text, url, title) ==
    Returned("image", [text |-> text, url |-> url, title |-> title],
             [text |-> text, title |-> title, url |-> url], {"super.image"})

\* IPythonRenderer.image: the value is what the base renderer's image is called with
image(text, url, title) ==
    LET args == [text |-> text, url |-> url, title |-> title]
        name == SubSeq(url, Len(ATTACHMENT_PREFIX) + 1, Len(url))
    IN  IF At(url, 1, ATTACHMENT_PREFIX)
        THEN IF name \notin DOMAIN attachments
             THEN Raised("image", args, "InvalidNotebook", {})
             ELSE LET mime_type == PreferredType(attachments[name], 1)
                  IN  IF mime_type = <<>>
                      THEN Raised("image", args, "IndexError", {})
                      ELSE Returned("image", args,
                                    [text |-> text, title |-> title,
                                     url |-> DataUrl(mime_type,
                                                     DataOf(attachments[name], mime_type))],
                                    {"super.image"})
        ELSE IF embed_images
        THEN LET base64_url == src_to_base64(url)
             IN  IF base64_url.exc # ""
                 THEN Raised("image", args, base64_url.exc, {"os.path.exists", "open"})
                 ELSE Returned("image", args,
                               [text |-> text, title |-> title,
                                url |-> IF base64_url.ok THEN base64_url.url ELSE url],
                               {"os.path.exists", "super.image"}
                                   \cup (IF base64_url.ok THEN {"open"} ELSE {}))
        ELSE Returned("image", args, [text |-> text, title |-> title, url |-> url],
                      {"super.image"})

\* a node of heading markup: a character of text (tag ""), or an element with
\* its text
TextNode(c) == [tag |-> "", text |-> <<c>>, href |-> <<>>]
EM == [tag |-> "em", text |-> <<"e">>, href |-> <<>>]

\* HTMLRenderer.heading: the h<level> element around the rendered children
base_heading(text, level) == [level |-> level, id |-> <<>>, children |-> text]

\* html_text: the text of the element and of its children, in order
html_text(h) == Flatten([k \in 1..Len(h.children) |-> h.children[k].text])

\* a text that keeps its spaces
ReplaceSpaces_Kept(t) == t

\* str.replace(' ', '-')
ReplaceSpaces(t) == [k \in 1..Len(t) |-> IF t[k] = " " THEN "-" ELSE t[k]]

\* add_anchor: the id of the heading and the anchor link appended to it
add_anchor(h, anchor_text) ==
    LET link == ReplaceSpaces(html_text(h))
    IN  [h EXCEPT !.id = link,
                  !.children = Append(@, [tag |-> "a", text |-> <<anchor_text>>,
                                          href |-> <<"#">> \o link])]

\* a heading that links whatever exclude_anchor_links is
heading_AlwaysLinked(text, level) ==
    Returned("heading", [text |-> text, level |-> level],
             add_anchor(base_heading(text, level), anchor_link_text),
             {"super.heading", "add_anchor"})

\* IPythonRenderer.heading
heading(text, level) ==
    LET args == [text |-> text, level |-> level]
        html == base_heading(text, level)
    IN  IF exclude_anchor_links
        THEN Returned("heading", args, html, {"super.heading"})
        ELSE Returned("heading", args, add_anchor(html, anchor_link_text),
                      {"super.heading", "add_anchor"})

\* an element or a text of an HTML fragment: its tag ("" for a text), its src
\* attribute if it has one, and its form, "source" as the author wrote it
\* (src=a.png, <img>) or "soup" as BeautifulSoup writes it (src="a.png", <img/>)
HtmlNode(tag, has_src, src_attr, form) ==
    [tag |-> tag, has_src |-> has_src, src |-> src_attr, form |-> form]

\* str(bs4.BeautifulSoup(html)): every node in the form BeautifulSoup writes
Soup(html) == [k \in 1..Len(html) |-> [html[k] EXCEPT !.form = "soup"]]

\* the loop of _html_embed_images over the nodes from k on: the first src that
\* exists and cannot be read ends it with the error of open
RECURSIVE EmbedFrom(_, _)
EmbedFrom(html, k) ==
    IF k > Len(html) THEN [exc |-> "", html |-> html, calls |-> {}]
    ELSE IF html[k].tag # "img" \/ ~html[k].has_src THEN EmbedFrom(html, k + 1)
    ELSE LET base64_url == src_to_base64(html[k].src)
         IN  IF base64_url.exc # ""
             THEN [exc |-> base64_url.exc, html |-> html,
                   calls |-> {"os.path.exists", "open"}]
             ELSE LET rest == EmbedFrom(
                                IF base64_url.ok
                                THEN [html EXCEPT ![k].src = base64_url.url]
                                ELSE html, k + 1)
                  IN  [rest EXCEPT !.calls = @ \cup {"os.path.exists"}
                                       \cup (IF base64_url.ok THEN {"open"} ELSE {})]

\* IPythonRenderer._html_embed_images
html_embed_images(html) ==
    LET done == EmbedFrom(Soup(html), 1)
    IN  [done EXCEPT !.calls = @ \cup {"bs4.BeautifulSoup"}]

\* the body of block_html and of inline_html: op is the name of the handler
HtmlCall(op, html) ==
    IF embed_images
    THEN LET embedded == html_embed_images(html)
         IN  IF embedded.exc # ""
             THEN Raised(op, [html |-> html], embedded.exc, embedded.calls)
             ELSE Returned(op, [html |-> html], embedded.html,
                           embedded.calls \cup {"super." \o op})
    ELSE Returned(op, [html |-> html], html, {"super." \o op})

\* IPythonRenderer.block_html
block_html(html) == HtmlCall("block_html", html)

\* IPythonRenderer.inline_html
inline_html(html) == HtmlCall("inline_html", html)

MERMAID == <<"m", "e", "r", "m", "a", "i", "d">>
PYTHON == <<"p", "y", "t", "h", "o", "n">>
NOLANG == <<"n", "o", "t", "-", "a", "-", "r", "e", "a", "l", "-", "l", "a", "n", "g">>

\* a fence-info that is the word mermaid and nothing else
IsMermaidInfo_Exact(info) == info = MERMAID

\* info and info.startswith("mermaid")
IsMermaidInfo(info) == info # <<>> /\ At(info, 1, MERMAID)

\* the names get_lexer_by_name finds a lexer for
KnownLexers == {PYTHON}

\* info.strip().split(None, 1)[0]: the first word of the fence-info
RECURSIVE WordAt(_, _)
WordAt(s, p) ==
    IF p <= Len(s) /\ s[p] \notin Whitespace THEN <<s[p]>> \o WordAt(s, p + 1) ELSE <<>>

\* the whole fence-info instead of its first word
FirstWord_WholeInfo(info) == info

FirstWord(info) == WordAt(info, Lead(info) + 1)

\* IPythonRenderer.block_mermaidjs
block_mermaidjs(code) == [kind |-> "mermaid", code |-> Strip(code), lexer |-> <<>>]

\* IPythonRenderer.block_code; info <<>> is an info of None or ""
block_code(code, info) ==
    LET args == [code |-> code, info |-> info]
        lang == FirstWord(info)
    IN  IF IsMermaidInfo(info)
        THEN Returned("block_code", args, block_mermaidjs(code), {})
        ELSE IF info = <<>>
        THEN Returned("block_code", args,
                      [kind |-> "plain", code |-> code, lexer |-> <<>>],
                      {"super.block_code"})
        ELSE IF lang = <<>>
        THEN Raised("block_code", args, "IndexError", {})
        ELSE IF lang \notin KnownLexers
        THEN Returned("block_code", args,
                      [kind |-> "plain", code |-> lang \o <<NL>> \o code, lexer |-> <<>>],
                      {"get_lexer_by_name", "super.block_code"})
        ELSE Returned("block_code", args,
                      [kind |-> "highlight", code |-> code, lexer |-> lang],
                      {"get_lexer_by_name", "highlight"})

\* ------------------------------------------------------------------ the texts

MaxAtoms == 3

BEGIN_A == BEGIN_OPEN \o <<"a", "}">>
END_A == END_OPEN \o <<"a", "}">>
BEGIN_B == BEGIN_OPEN \o <<"b", "}">>
END_B == END_OPEN \o <<"b", "}">>
\* the delimiters of a starred environment
BEGIN_STAR == BEGIN_OPEN \o <<"a", "*", "}">>
END_STAR == END_OPEN \o <<"a", "*", "}">>
\* the currency text
CURRENCY == <<"$", "5", " ", "a", "n", "d", " ", "$", "1", "0">>
\* display math whose body has a blank line
DISPLAY == <<"$", "$", "x", NL, NL, "y", "$", "$">>
\* inline math in the LaTeX delimiters
PARENS == <<BS, BS, "(", "x", BS, BS, ")">>

\* the pieces a text of the model is made of
Atoms == {<<"$">>, <<"$", "$">>, <<BS>>, <<NL>>, <<"&">>,
          BEGIN_A, END_A, BEGIN_B, END_B, CURRENCY, DISPLAY, PARENS,
          <<BS, BS, "[">>, <<BS, BS, "]">>}

\* a heading line, a list item and a block quote
HEADING == <<"#", " ", "h">>
ITEM == <<"-", " ", "y">>
QUOTE == <<">", " ", "q">>
\* the lines of a body: a heading, a list item, a blank line, a block quote and
\* a blank line
LINES == <<NL>> \o HEADING \o <<NL>> \o ITEM \o <<NL, NL>> \o QUOTE \o <<NL, NL>>
\* these lines within each kind of display delimiters, and within brackets
\* that one backslash precedes
TEX_LINES == <<"$", "$">> \o LINES \o <<"$", "$">>
LATEX_LINES == <<BS, BS, "[">> \o LINES \o <<BS, BS, "]">>
ENV_LINES == BEGIN_A \o LINES \o END_A
ONE_LINES == <<BS, "[">> \o LINES \o <<BS, "]">>
\* math whose body has the characters of markup
TEX_MARKUP == <<"$", "<", "'", ">", "$">>
DISPLAY_MARKUP == <<"$", "$", "<", "'", ">", "$", "$">>
PARENS_MARKUP == <<BS, BS, "(", "<", "'", ">", BS, BS, ")">>
LATEX_MARKUP == <<BS, BS, "[", "<", "'", ">", BS, BS, "]">>
\* display math on one line
XX == <<"$", "$", "x", "$", "$">>

\* the texts of three parts: what stands before a span, a span, and what stands
\* after it
Prefixes == {<<>>, <<"&">>, <<BS>>, <<"$">>, HEADING \o <<" ">>, <<"x", NL, NL>>}
Spans == {TEX_LINES, LATEX_LINES, ENV_LINES, ONE_LINES,
          TEX_MARKUP, DISPLAY_MARKUP, PARENS_MARKUP, LATEX_MARKUP, XX}
Suffixes == {<<>>, <<"&">>, <<"$">>, <<NL, NL, "x">>}

\* the lines that begin with spaces and # : up to MaxIndent spaces, up to
\* MaxHashes #, and the rest of the line
MaxIndent == 4
MaxHashes == 7

Repeat(c, n) == [k \in 1..n |-> c]

Rests == {<<>>, <<" ", "h">>, <<"h">>, <<" ", "h", " ", "#">>, <<" ", "h", "#">>}

HashLines ==
    {Repeat(" ", i) \o Repeat("#", n) \o rest :
        i \in 0..MaxIndent, n \in 1..MaxHashes, rest \in Rests}

\* what stands before such a line: nothing, a line of a paragraph, a paragraph
\* and a blank line; and after it: nothing, a line of inline math,
LinesBefore == {<<>>, <<"x", NL>>, <<"x", NL, NL>>}
\* or a line of MaxHashes #
LinesAfter ==
    {<<>>, <<NL, "$", "x", "$">>, <<NL>> \o Repeat("#", MaxHashes) \o <<" ", "h">>}

\* Markdown.parse: the source ends with a newline
Normalize(t) == IF t # <<>> /\ t[Len(t)] = NL THEN t ELSE Append(t, NL)

\* ------------------------------------------------------------------ the conversion

None == [rule |-> "none", m |-> NoMatch]

\* the inline parser starts on the paragraph after token k, or the render starts
EnterInline(toks, k) ==
    LET n == NextPara(toks, k)
    IN  IF n = 0
        THEN /\ pc' = "render"
             /\ para' = 0 /\ isrc' = <<>> /\ ioff' = 0 /\ ipos' = 1
             /\ m' = None
        ELSE /\ pc' = "inline"
             /\ para' = n
             /\ isrc' = Strip(toks[n].text)
             /\ ioff' = toks[n].from + Lead(toks[n].text) - 1
             /\ ipos' = 1
             /\ m' = InlineSearch(Strip(toks[n].text), 1)

\* IPythonRenderer.__init__ with the defaults of its arguments, as
\* markdown2html_mistune constructs it
RendererDefaults ==
    /\ embed_images = FALSE
    /\ exclude_anchor_links = FALSE
    /\ anchor_link_text = "P"
    /\ path = <<>>
    /\ attachments = <<>>

\* no export is under way
ExporterIdle ==
    /\ allow_chromium_download = FALSE
    /\ chromium = FALSE
    /\ nb = <<>>
    /\ resources = <<>>
    /\ epc = "done"
    /\ trace = <<>>
    /\ result = Idle

\* no QtExporter is at work
QtIdle ==
    /\ format = "pdf"
    /\ paginate = FALSE
    /\ platform = "linux"
    /\ QT_INSTALLED = FALSE
    /\ qhtml = <<>>
    /\ temp_files = {}
    /\ qpc = "done"
    /\ pending = ""
    /\ qresult = Idle

\* rm_math_space is not called
LatexIdle ==
    /\ ltext = <<>>
    /\ lret = Idle

InitParse ==
    /\ \/ \E a \in [1..MaxAtoms -> Atoms \cup {<<>>}] : src = Normalize(Flatten(a))
       \/ \E a \in [1..(MaxAtoms - 2) -> Atoms \cup {<<>>}] :
            src = Normalize(BEGIN_STAR \o Flatten(a) \o END_STAR)
       \/ \E pre \in Prefixes, span \in Spans, post \in Suffixes :
            src = Normalize(pre \o span \o post)
       \/ \E pre \in LinesBefore, line \in HashLines, post \in LinesAfter :
            src = Normalize(pre \o line \o post)
    /\ cursor = 1
    /\ tokens = <<>>
    /\ pc = "block"
    /\ para = 0 /\ isrc = <<>> /\ ioff = 0 /\ ipos = 1
    /\ itokens = <<>>
    /\ m = BlockSearch(src, 1)
    /\ out = <<>>
    /\ RendererDefaults
    /\ ret = Idle
    /\ ExporterIdle
    /\ QtIdle
    /\ LatexIdle

\* MathBlockParser.parse_multiline_math, with the step of BlockParser.parse
\* that calls it and searches again
parse_multiline_math ==
    /\ pc = "block"
    /\ m.rule = "multiline_math"
    /\ tokens' = add_paragraph(AddHole(tokens, src, cursor, m.m.start),
                               Slice(src, m.m.start, m.m.end), m.m.start)
    /\ cursor' = m.m.end
    /\ m' = BlockSearch(src, m.m.end)
    /\ UNCHANGED <<src, pc, para, isrc, ioff, ipos, itokens, out>>
    /\ UNCHANGED <<rvars, ret, evars, qvars, lvars>>

\* BlockParser.parse_blank_line, with the step of BlockParser.parse that calls it
parse_blank_line ==
    /\ pc = "block"
    /\ m.rule = "blank_line"
    /\ tokens' = Append(AddHole(tokens, src, cursor, m.m.start),
                        [type |-> "blank_line", text |-> <<>>, from |-> m.m.start])
    /\ cursor' = m.m.end
    /\ m' = BlockSearch(src, m.m.end)
    /\ UNCHANGED <<src, pc, para, isrc, ioff, ipos, itokens, out>>
    /\ UNCHANGED <<rvars, ret, evars, qvars, lvars>>

\* _AXT_HEADING_TRIM, (\s+|^)#+\s*$, removed from a stripped heading text: a
\* closing run of # goes with the white space before it, when it is the whole
\* text or white space stands before it
TrimHashes(t) ==
    LET RECURSIVE Hashes(_)
        Hashes(k) == IF k >= 1 /\ t[k] = "#" THEN 1 + Hashes(k - 1) ELSE 0
        r == Hashes(Len(t))
    IN  IF r = 0 THEN t
        ELSE IF r = Len(t) THEN <<>>
        ELSE IF t[Len(t) - r] \in Whitespace THEN RStrip(SubSeq(t, 1, Len(t) - r))
        ELSE t

\* BlockParser.parse_axt_heading, with the step of BlockParser.parse that calls
\* it: the heading's level is the length of group axt_1, its text is group
\* axt_2 stripped and trimmed, the cursor goes past the line
parse_axt_heading ==
    /\ pc = "block"
    /\ m.rule = "axt_heading"
    /\ tokens' = Append(AddHole(tokens, src, cursor, m.m.start),
                        [type |-> "heading",
                         text |-> TrimHashes(Strip(m.m.body)),
                         from |-> m.m.end - Len(m.m.body) + Lead(m.m.body),
                         level |-> Len(m.m.name)])
    /\ cursor' = m.m.end + 1
    /\ m' = BlockSearch(src, m.m.end + 1)
    /\ UNCHANGED <<src, pc, para, isrc, ioff, ipos, itokens, out>>
    /\ UNCHANGED <<rvars, ret, evars, qvars, lvars>>

\* _INDENT_CODE_TRIM, ^ {1,4} under re.M, removed from the code, and the
\* newlines around the code stripped
TrimIndent(code) ==
    LET RECURSIVE Trim(_, _)
        \* n: the spaces that may still be dropped on the current line
        Trim(t, n) ==
            IF t = <<>> THEN <<>>
            ELSE IF Head(t) = " " /\ n > 0 THEN Trim(Tail(t), n - 1)
            ELSE IF Head(t) = NL THEN <<NL>> \o Trim(Tail(t), 4)
            ELSE <<Head(t)>> \o Trim(Tail(t), 0)
        RECURSIVE StripNL(_)
        StripNL(t) ==
            IF t # <<>> /\ Head(t) = NL THEN StripNL(Tail(t))
            ELSE IF t # <<>> /\ t[Len(t)] = NL THEN StripNL(SubSeq(t, 1, Len(t) - 1))
            ELSE t
    IN  StripNL(Trim(code, 4))

\* BlockParser.parse_indent_code, with the step of BlockParser.parse that calls
\* it: after a paragraph the indented line is more text of the paragraph
\* (state.append_paragraph, up to the end of the line), otherwise the match is
\* a block of code
parse_indent_code ==
    /\ pc = "block"
    /\ m.rule = "indent_code"
    /\ LET toks == AddHole(tokens, src, cursor, m.m.start)
           line == LineEnd(src, m.m.start) + 1
       IN  IF toks # <<>> /\ toks[Len(toks)].type = "paragraph"
           THEN /\ tokens' = add_paragraph(toks, Slice(src, m.m.start, line), m.m.start)
                /\ cursor' = line
                /\ m' = BlockSearch(src, line)
           ELSE /\ tokens' = Append(toks, [type |-> "block_code",
                                           text |-> TrimIndent(m.m.body),
                                           from |-> m.m.start])
                /\ cursor' = m.m.end
                /\ m' = BlockSearch(src, m.m.end)
    /\ UNCHANGED <<src, pc, para, isrc, ioff, ipos, itokens, out>>
    /\ UNCHANGED <<rvars, ret, evars, qvars, lvars>>

\* BlockParser.parse_block_quote with extract_block_quote, for a quote of one
\* line that the end of the text or a blank line follows (the quotes of the
\* model's texts): the quote's text is the line after the marker and one space;
\* the blank lines after it are parsed from within, their token is put after
\* the quote's
parse_block_quote ==
    /\ pc = "block"
    /\ m.rule = "block_quote"
    /\ LET lead == IF m.m.body # <<>> /\ Head(m.m.body) = " " THEN 1 ELSE 0
           after == m.m.end + 1
           quote == [type |-> "block_quote",
                     text |-> SubSeq(m.m.body, lead + 1, Len(m.m.body)),
                     from |-> m.m.end - Len(m.m.body) + lead]
           toks == Append(AddHole(tokens, src, cursor, m.m.start), quote)
       IN  /\ tokens' = IF BlankRun(src, after) > after
                        THEN Append(toks, [type |-> "blank_line", text |-> <<>>,
                                           from |-> after])
                        ELSE toks
           /\ cursor' = BlankRun(src, after)
           /\ m' = BlockSearch(src, BlankRun(src, after))
    /\ UNCHANGED <<src, pc, para, isrc, ioff, ipos, itokens, out>>
    /\ UNCHANGED <<rvars, ret, evars, qvars, lvars>>

\* list_parser.parse_list with _parse_list_item, for an item of one line with
\* text that the end of the text or a blank line follows (the items of the
\* model's texts): the item's text is the line after the marker and the spaces;
\* the blank lines after the item belong to it and leave no token
parse_list ==
    /\ pc = "block"
    /\ m.rule = "list"
    /\ tokens' = Append(AddHole(tokens, src, cursor, m.m.start),
                        [type |-> "list",
                         text |-> SubSeq(m.m.body, Lead(m.m.body) + 1, Len(m.m.body)),
                         from |-> m.m.end - Len(m.m.body) + Lead(m.m.body)])
    /\ cursor' = BlankRun(src, m.m.end + 1)
    /\ m' = BlockSearch(src, BlankRun(src, m.m.end + 1))
    /\ UNCHANGED <<src, pc, para, isrc, ioff, ipos, itokens, out>>
    /\ UNCHANGED <<rvars, ret, evars, qvars, lvars>>

\* the end of BlockParser.parse: no rule matches after the cursor, the rest of
\* the text is paragraph text; the inline parser starts on the first paragraph
block_parse_end ==
    /\ pc = "block"
    /\ m.rule = "none"
    /\ LET toks == AddHole(tokens, src, cursor, Len(src) + 1)
       IN  /\ tokens' = toks
           /\ EnterInline(toks, 0)
    /\ cursor' = Len(src) + 1
    /\ UNCHANGED <<src, itokens, out>>
    /\ UNCHANGED <<rvars, ret, evars, qvars, lvars>>

\* state.append_token of a step of InlineParser.parse: the text before the
\* match has become a text token first
AppendToken(type, raw, name) ==
    Append(TextHole(itokens, isrc, ioff, ipos, m.m.start),
           Tok(type, raw, name, ioff + m.m.start, ioff + m.m.end))

parse_block_math_tex ==
    /\ pc = "inline"
    /\ m.rule = "block_math_tex"
    /\ itokens' = AppendToken("block_math", m.m.body, <<>>)
    /\ ipos' = m.m.end
    /\ m' = InlineSearch(isrc, m.m.end)
    /\ UNCHANGED <<src, cursor, tokens, pc, para, isrc, ioff, out>>
    /\ UNCHANGED <<rvars, ret, evars, qvars, lvars>>

parse_block_math_latex ==
    /\ pc = "inline"
    /\ m.rule = "block_math_latex"
    /\ itokens' = AppendToken("block_math", m.m.body, <<>>)
    /\ ipos' = m.m.end
    /\ m' = InlineSearch(isrc, m.m.end)
    /\ UNCHANGED <<src, cursor, tokens, pc, para, isrc, ioff, out>>
    /\ UNCHANGED <<rvars, ret, evars, qvars, lvars>>

parse_inline_math_tex ==
    /\ pc = "inline"
    /\ m.rule = "inline_math_tex"
    /\ itokens' = AppendToken("inline_math", m.m.body, <<>>)
    /\ ipos' = m.m.end
    /\ m' = InlineSearch(isrc, m.m.end)
    /\ UNCHANGED <<src, cursor, tokens, pc, para, isrc, ioff, out>>
    /\ UNCHANGED <<rvars, ret, evars, qvars, lvars>>

parse_inline_math_latex ==
    /\ pc = "inline"
    /\ m.rule = "inline_math_latex"
    /\ itokens' = AppendToken("inline_math", m.m.body, <<>>)
    /\ ipos' = m.m.end
    /\ m' = InlineSearch(isrc, m.m.end)
    /\ UNCHANGED <<src, cursor, tokens, pc, para, isrc, ioff, out>>
    /\ UNCHANGED <<rvars, ret, evars, qvars, lvars>>

parse_latex_environment ==
    /\ pc = "inline"
    /\ m.rule = "latex_environment"
    /\ itokens' = AppendToken("latex_environment", m.m.body, m.m.name)
    /\ ipos' = m.m.end
    /\ m' = InlineSearch(isrc, m.m.end)
    /\ UNCHANGED <<src, cursor, tokens, pc, para, isrc, ioff, out>>
    /\ UNCHANGED <<rvars, ret, evars, qvars, lvars>>

\* a step of InlineParser.parse whose match is of an inherited rule: an escaped
\* run becomes its text, a line break a break token, and a bracket that opens
\* no link is passed over as text
parse_inherited ==
    /\ pc = "inline"
    /\ m.rule \in {"escape", "link", "linebreak", "softbreak"}
    /\ LET matched == Slice(isrc, m.m.start, m.m.end)
       IN  itokens' = AppendToken(
                        IF m.rule \in {"escape", "link"} THEN "text" ELSE m.rule,
                        IF m.rule = "escape" THEN Unescape(matched) ELSE matched,
                        <<>>)
    /\ ipos' = m.m.end
    /\ m' = InlineSearch(isrc, m.m.end)
    /\ UNCHANGED <<src, cursor, tokens, pc, para, isrc, ioff, out>>
    /\ UNCHANGED <<rvars, ret, evars, qvars, lvars>>

\* the end of InlineParser.parse: the rest of the text is a text token; the
\* inline parser goes on to the next paragraph, the render starts after the last
inline_parse_end ==
    /\ pc = "inline"
    /\ m.rule = "none"
    /\ itokens' = TextHole(itokens, isrc, ioff, ipos, Len(isrc) + 1)
    /\ EnterInline(tokens, para)
    /\ UNCHANGED <<src, cursor, tokens, out>>
    /\ UNCHANGED <<rvars, ret, evars, qvars, lvars>>

\* the renderer is called on every token
render_tokens ==
    /\ pc = "render"
    /\ out' = [k \in 1..Len(itokens) |-> RenderToken(itokens[k])]
    /\ pc' = "done"
    /\ UNCHANGED <<src, cursor, tokens, para, isrc, ioff, ipos, itokens, m>>
    /\ UNCHANGED <<rvars, ret, evars, qvars, lvars>>

NextParse ==
    \/ parse_multiline_math
    \/ parse_blank_line
    \/ parse_axt_heading
    \/ parse_indent_code
    \/ parse_block_quote
    \/ parse_list
    \/ block_parse_end
    \/ parse_block_math_tex
    \/ parse_block_math_latex
    \/ parse_inline_math_tex
    \/ parse_inline_math_latex
    \/ parse_latex_environment
    \/ parse_inherited
    \/ inline_parse_end
    \/ render_tokens

vars == <<pvars, rvars, ret, evars, qvars, lvars>>

Init == InitParse

Next == NextParse

Spec == Init /\ [][Next]_vars

\* ------------------------------------------------------------------ the renderer's calls

MaxTypes == 2
MaxText == 2

AttachmentName == <<"f", "i", "g", "1">>
MissingName == <<"f", "i", "g", "2">>

\* the data of the model's attachments, one per type
DataFor(mime) ==
    IF mime = SVG THEN <<"U", "1", "Z", "H">>
    ELSE IF mime = PNG THEN <<"U", "E", "5", "H">>
    ELSE IF mime = JPEG THEN <<"S", "l", "B", "H">>
    ELSE <<"R", "0", "l", "G">>

\* the attachments of n types: no type twice, in the order of the notebook
EntriesOf(n) ==
    {[k \in 1..n |-> <<f[k], DataFor(f[k])>>] :
        f \in {g \in [1..n -> {SVG, PNG, JPEG, GIF}] :
                  \A i, j \in 1..n : i # j => g[i] # g[j]}}

Entries == UNION {EntriesOf(n) : n \in 0..MaxTypes}

ImageUrls ==
    {ATTACHMENT_PREFIX \o AttachmentName, ATTACHMENT_PREFIX \o MissingName,
     ATTACHMENT_PREFIX, <<"a", ".", "p", "n", "g">>, <<"m", ".", "p", "n", "g">>,
     <<"x">>, <<"d">>, <<>>}

HeadingNodes == {TextNode("H"), TextNode(" "), TextNode(TAB), EM}

HeadingTexts == UNION {[1..n -> HeadingNodes] : n \in 0..MaxText}

MaxNodes == 2

HtmlNodes ==
    {HtmlNode("", FALSE, <<>>, "soup"),
     HtmlNode("p", FALSE, <<>>, "source"),
     HtmlNode("img", FALSE, <<>>, "source"),
     HtmlNode("img", TRUE, <<"a", ".", "p", "n", "g">>, "source"),
     HtmlNode("img", TRUE, <<"m", ".", "p", "n", "g">>, "soup"),
     HtmlNode("img", TRUE, <<"d">>, "soup")}

HtmlFragments == UNION {[1..n -> HtmlNodes] : n \in 0..MaxNodes}

Codes == {<<"c">>, <<" ", "c", NL>>}

Infos == {<<>>, PYTHON, NOLANG, MERMAID, MERMAID \o <<"j", "s">>,
          NOLANG \o <<" ", "x">>, PYTHON \o <<" ", "x">>}

\* the bodies and the names of the math that is rendered
MathBodies == {<<"x">>, <<"a", "&", "b">>, <<"<">>}
EnvNames == {<<"a">>, <<"a", "*">>}

\* the parser has nothing to do while the renderer is called directly
ParserIdle ==
    /\ src = <<>> /\ cursor = 1 /\ tokens = <<>> /\ pc = "done"
    /\ para = 0 /\ isrc = <<>> /\ ioff = 0 /\ ipos = 1
    /\ itokens = <<>> /\ m = None /\ out = <<>>

\* IPythonRenderer.__init__
InitRender ==
    /\ ParserIdle
    /\ embed_images \in BOOLEAN
    /\ exclude_anchor_links \in BOOLEAN
    /\ anchor_link_text = "P"
    /\ path \in {<<>>, <<"n", "b">>}
    /\ attachments \in {<<>>} \cup {AttachmentName :> e : e \in Entries}
    /\ ret = Idle
    /\ ExporterIdle
    /\ QtIdle
    /\ LatexIdle

call_image ==
    /\ ret.outcome = "idle"
    /\ \E url \in ImageUrls : ret' = image(<<"a", "l", "t">>, url, <<>>)
    /\ Becomes(SelfAfter("image", Self))
    /\ UNCHANGED <<pvars, evars, qvars, lvars>>

call_heading ==
    /\ ret.outcome = "idle"
    /\ \E text \in HeadingTexts, level \in 1..2 : ret' = heading(text, level)
    /\ Becomes(SelfAfter("heading", Self))
    /\ UNCHANGED <<pvars, evars, qvars, lvars>>

call_block_code ==
    /\ ret.outcome = "idle"
    /\ \E code \in Codes, info \in Infos : ret' = block_code(code, info)
    /\ Becomes(SelfAfter("block_code", Self))
    /\ UNCHANGED <<pvars, evars, qvars, lvars>>

call_block_html ==
    /\ ret.outcome = "idle"
    /\ \E html \in HtmlFragments : ret' = block_html(html)
    /\ Becomes(SelfAfter("block_html", Self))
    /\ UNCHANGED <<pvars, evars, qvars, lvars>>

call_inline_html ==
    /\ ret.outcome = "idle"
    /\ \E html \in HtmlFragments : ret' = inline_html(html)
    /\ Becomes(SelfAfter("inline_html", Self))
    /\ UNCHANGED <<pvars, evars, qvars, lvars>>

\* the math methods, with the raw text and the name that a token carries
call_block_math ==
    /\ ret.outcome = "idle"
    /\ \E body \in MathBodies :
        ret' = Returned("block_math", <<body>>, block_math(body), {})
    /\ Becomes(SelfAfter("block_math", Self))
    /\ UNCHANGED <<pvars, evars, qvars, lvars>>

call_inline_math ==
    /\ ret.outcome = "idle"
    /\ \E body \in MathBodies :
        ret' = Returned("inline_math", <<body>>, inline_math(body), {})
    /\ Becomes(SelfAfter("inline_math", Self))
    /\ UNCHANGED <<pvars, evars, qvars, lvars>>

call_latex_environment ==
    /\ ret.outcome = "idle"
    /\ \E name \in EnvNames, body \in MathBodies :
        ret' = Returned("latex_environment", <<name, body>>,
                        latex_environment(name, body), {})
    /\ Becomes(SelfAfter("latex_environment", Self))
    /\ UNCHANGED <<pvars, evars, qvars, lvars>>

\* the call has returned: the render goes on to its next token
next_token ==
    /\ ret.outcome = "return"
    /\ ret' = Idle
    /\ UNCHANGED <<pvars, rvars, evars, qvars, lvars>>

NextRender ==
    \/ call_image
    \/ call_heading
    \/ call_block_code
    \/ call_block_html
    \/ call_inline_html
    \/ call_block_math
    \/ call_inline_math
    \/ call_latex_environment
    \/ next_token

SpecRender == InitRender /\ [][NextRender]_vars

\* ------------------------------------------------------------------ WebPDFExporter

MaxCells == 2

\* the kinds of cell: a markdown cell, a code cell, and a markdown cell with an
\* image whose attachment is missing, on which the HTML conversion raises
\* InvalidNotebook
CellKinds == {"markdown", "code", "missing_attachment"}

Notebooks == UNION {[1..n -> CellKinds] : n \in 0..MaxCells}

\* the resources argument: None, or a dictionary with an entry
ResourcesGiven == {<<>>, <<<<"unique_key", "nb">>>>}

\* d[key] = value, on a dictionary of <<key, value>> pairs
Assign(d, key, value) ==
    IF \E k \in 1..Len(d) : d[k][1] = key
    THEN [k \in 1..Len(d) |-> IF d[k][1] = key THEN <<key, value>> ELSE d[k]]
    ELSE Append(d, <<key, value>>)

\* the test of from_notebook_node with the flag ignored
NoChromium_FlagIgnored == ~chromium

\* not self.allow_chromium_download and not check_chromium()
NoChromium == ~allow_chromium_download /\ ~chromium

InitWebPDF ==
    /\ ParserIdle
    /\ RendererDefaults
    /\ ret = Idle
    /\ allow_chromium_download \in BOOLEAN
    /\ chromium \in BOOLEAN
    /\ nb \in Notebooks
    /\ resources \in ResourcesGiven
    /\ epc = "check"
    /\ trace = <<>>
    /\ result = Idle
    /\ QtIdle
    /\ LatexIdle

\* from_notebook_node up to its first call of the base class: check_chromium is
\* called only when the download is not allowed, and RuntimeError is raised
\* when it finds no executable
check_chromium ==
    /\ epc = "check"
    /\ trace' = IF allow_chromium_download THEN trace
                ELSE Append(trace, "check_chromium")
    /\ IF NoChromium
       THEN /\ result' = Raised("from_notebook_node", nb, "RuntimeError", {})
            /\ epc' = "done"
       ELSE /\ result' = result
            /\ epc' = "convert"
    /\ UNCHANGED <<allow_chromium_download, chromium, nb, resources>>
    /\ UNCHANGED <<pvars, rvars, ret, qvars, lvars>>

\* super().from_notebook_node(nb, resources=resources, **kw): the HTML of the
\* notebook and the resources with the extension of the HTML exporter, or the
\* error of a cell that cannot be converted
html_from_notebook_node ==
    /\ epc = "convert"
    /\ trace' = Append(trace, "HTMLExporter.from_notebook_node")
    /\ IF \E k \in 1..Len(nb) : nb[k] = "missing_attachment"
       THEN /\ result' = Raised("from_notebook_node", nb, "InvalidNotebook", {})
            /\ epc' = "done"
            /\ resources' = resources
       ELSE /\ result' = result
            /\ epc' = "puppeteer"
            /\ resources' = Assign(resources, "output_extension", ".html")
    /\ UNCHANGED <<allow_chromium_download, chromium, nb>>
    /\ UNCHANGED <<pvars, rvars, ret, qvars, lvars>>

\* run_puppeteer(html), with the log call before it: launch downloads a
\* chromium when none is on the system, and the download can fail; the page is
\* then printed and the browser closed
run_puppeteer ==
    /\ epc = "puppeteer"
    /\ \E downloaded \in BOOLEAN :
          IF chromium
          THEN /\ trace' = trace \o <<"log.info", "launch", "page.pdf", "browser.close">>
               /\ result' = result
               /\ epc' = "finish"
          ELSE IF downloaded
          THEN /\ trace' = trace \o <<"log.info", "download_chromium", "launch",
                                      "page.pdf", "browser.close">>
               /\ result' = result
               /\ epc' = "finish"
          ELSE /\ trace' = trace \o <<"log.info", "download_chromium">>
               /\ result' = Raised("from_notebook_node", nb, "OSError", {})
               /\ epc' = "done"
    /\ UNCHANGED <<allow_chromium_download, chromium, nb, resources>>
    /\ UNCHANGED <<pvars, rvars, ret, qvars, lvars>>

\* the end of from_notebook_node: the output extension becomes .pdf, the PDF
\* data and the resources are returned
return_pdf ==
    /\ epc = "finish"
    /\ trace' = Append(trace, "log.info")
    /\ resources' = Assign(resources, "output_extension", ".pdf")
    /\ result' = Returned("from_notebook_node", nb,
                          [pdf_of |-> nb,
                           resources |-> Assign(resources, "output_extension", ".pdf")],
                          {})
    /\ epc' = "done"
    /\ UNCHANGED <<allow_chromium_download, chromium, nb>>
    /\ UNCHANGED <<pvars, rvars, ret, qvars, lvars>>

NextWebPDF ==
    \/ check_chromium
    \/ html_from_notebook_node
    \/ run_puppeteer
    \/ return_pdf

SpecWebPDF == InitWebPDF /\ [][NextWebPDF]_vars

\* ------------------------------------------------------------------ QtExporter

\* a character that utf-8 cannot encode: a surrogate that stands alone
SURROGATE == "U+D800"

\* the html that run_pyqtwebengine is called with
HtmlTexts == {<<>>, <<"x">>, <<"<", "p", ">">>, <<"x", SURROGATE>>}

\* html.encode("utf-8") returns: no character of the text is a lone surrogate
Encodable(t) == \A k \in 1..Len(t) : t[k] # SURROGATE

\* temp_file.name, and filename: the name with the suffix .html replaced
temp_file_name == <<"tmp", ".html">>
filename == <<"tmp", "." \o format>>

InitQt ==
    /\ ParserIdle
    /\ RendererDefaults
    /\ ret = Idle
    /\ ExporterIdle
    /\ LatexIdle
    /\ format \in {"pdf", "png"}
    /\ paginate \in BOOLEAN
    /\ platform \in {"linux", "win32"}
    /\ QT_INSTALLED \in BOOLEAN
    /\ qhtml \in HtmlTexts
    /\ temp_files = {}
    /\ qpc = "create"
    /\ pending = ""
    /\ qresult = Idle

\* tempfile.NamedTemporaryFile(suffix=ext, delete=False): the file is there and
\* closing it does not remove it
create_temp_file ==
    /\ qpc = "create"
    /\ temp_files' = temp_files \cup {temp_file_name}
    /\ qpc' = "write"
    /\ UNCHANGED <<format, paginate, platform, QT_INSTALLED, qhtml, pending, qresult>>
    /\ UNCHANGED <<pvars, rvars, ret, evars, lvars>>

\* with temp_file: temp_file.write(html.encode("utf-8")), before the try
\* statement: encode raises UnicodeEncodeError on a lone surrogate, write
\* raises OSError when the file system refuses the bytes, and the error leaves
\* run_pyqtwebengine as it is
write_html ==
    /\ qpc = "write"
    /\ IF ~Encodable(qhtml)
       THEN /\ qresult' = Raised("run_pyqtwebengine", <<qhtml>>, "UnicodeEncodeError", {})
            /\ qpc' = "done"
       ELSE \E written \in BOOLEAN :
                IF written
                THEN /\ qpc' = "launch"
                     /\ UNCHANGED qresult
                ELSE /\ qresult' = Raised("run_pyqtwebengine", <<qhtml>>, "OSError", {})
                     /\ qpc' = "done"
    /\ UNCHANGED <<format, paginate, platform, QT_INSTALLED, qhtml, temp_files, pending>>
    /\ UNCHANGED <<pvars, rvars, ret, evars, lvars>>

\* QtExporter._check_launch_reqs, called in the try block
check_launch_reqs ==
    /\ qpc = "launch"
    /\ IF platform \in {"win32"} /\ format = "png"
       THEN pending' = "RuntimeError" /\ qpc' = "unlink"
       ELSE IF ~QT_INSTALLED
       THEN pending' = "RuntimeError" /\ qpc' = "unlink"
       ELSE pending' = "" /\ qpc' = "capture"
    /\ UNCHANGED <<format, paginate, platform, QT_INSTALLED, qhtml, temp_files, qresult>>
    /\ UNCHANGED <<pvars, rvars, ret, evars, lvars>>

\* s = QtScreenshot(); s.capture(url, filename, self.paginate): the capture
\* ends or raises
capture ==
    /\ qpc = "capture"
    /\ \E captured \in BOOLEAN :
        pending' = IF captured THEN "" ELSE "Exception"
    /\ qpc' = "unlink"
    /\ UNCHANGED <<format, paginate, platform, QT_INSTALLED, qhtml, temp_files, qresult>>
    /\ UNCHANGED <<pvars, rvars, ret, evars, lvars>>

\* finally: os.unlink(temp_file.name); then the exception of the try block goes
\* on, or s.data is returned
unlink ==
    /\ qpc = "unlink"
    /\ temp_files' = temp_files \ {temp_file_name}
    /\ qresult' =
        IF pending # ""
        THEN Raised("run_pyqtwebengine", <<qhtml>>, pending, {})
        ELSE Returned("run_pyqtwebengine", <<qhtml>>, <<filename, paginate>>, {})
    /\ qpc' = "done"
    /\ UNCHANGED <<format, paginate, platform, QT_INSTALLED, qhtml, pending>>
    /\ UNCHANGED <<pvars, rvars, ret, evars, lvars>>

NextQt ==
    \/ create_temp_file
    \/ write_html
    \/ check_launch_reqs
    \/ capture
    \/ unlink

SpecQt == InitQt /\ [][NextQt]_vars

\* ------------------------------------------------------------------ rm_math_space

\* the variables of rm_math_space before its loop; math_regions is appended to
\* and never read, and is left out; math_start_index is a position from 1 on
LoopStart ==
    [within_math |-> FALSE, math_start_index |-> 1, math_lines |-> 0,
     ptext |-> <<>>, last_character |-> "", skip |-> FALSE]

\* a loop body that gives a region up at its first newline
LoopBody_OneLine(t, index, st) ==
    LET char == t[index]
        s1 == IF char = "$" /\ st.last_character # BS
              THEN IF st.within_math
                   THEN [st EXCEPT !.within_math = FALSE, !.skip = TRUE,
                                   !.ptext = @ \o <<"$">>
                                       \o Strip(Slice(t, st.math_start_index + 1, index))
                                       \o <<"$">>]
                   ELSE [st EXCEPT !.within_math = TRUE, !.math_start_index = index,
                                   !.math_lines = 0]
              ELSE IF char = NL /\ st.within_math
              THEN [st EXCEPT !.math_lines = @ + 1, !.within_math = FALSE,
                              !.ptext = @ \o Slice(t, st.math_start_index, index)]
              ELSE st
        s2 == [s1 EXCEPT !.last_character = char]
        s3 == IF ~s2.within_math /\ ~s2.skip
              THEN [s2 EXCEPT !.ptext = @ \o <<char>>]
              ELSE s2
    IN  [s3 EXCEPT !.skip = FALSE]

\* the body of the loop of rm_math_space for the character at index: a $ that
\* no backslash precedes closes the region (the stripped body goes to ptext
\* between two $) or opens one; the second newline of a region gives the
\* region up and its text goes to ptext; the character goes to ptext when no
\* region is open and none was closed by it
LoopBody(t, index, st) ==
    LET char == t[index]
        s1 == IF char = "$" /\ st.last_character # BS
              THEN IF st.within_math
                   THEN [st EXCEPT !.within_math = FALSE, !.skip = TRUE,
                                   !.ptext = @ \o <<"$">>
                                       \o Strip(Slice(t, st.math_start_index + 1, index))
                                       \o <<"$">>]
                   ELSE [st EXCEPT !.within_math = TRUE, !.math_start_index = index,
                                   !.math_lines = 0]
              ELSE IF char = NL /\ st.within_math
              THEN IF st.math_lines + 1 > 1
                   THEN [st EXCEPT !.math_lines = @ + 1, !.within_math = FALSE,
                                   !.ptext = @ \o Slice(t, st.math_start_index, index)]
                   ELSE [st EXCEPT !.math_lines = @ + 1]
              ELSE st
        s2 == [s1 EXCEPT !.last_character = char]
        s3 == IF ~s2.within_math /\ ~s2.skip
              THEN [s2 EXCEPT !.ptext = @ \o <<char>>]
              ELSE s2
    IN  [s3 EXCEPT !.skip = FALSE]

\* for index, char in enumerate(text)
RECURSIVE Loop(_, _, _)
Loop(t, index, st) ==
    IF index > Len(t) THEN st ELSE Loop(t, index + 1, LoopBody(t, index, st))

\* rm_math_space(text): ptext after the loop
rm_math_space(t) == Loop(t, 1, LoopStart).ptext

\* the texts rm_math_space is called with: up to MaxChars characters, each a
\* dollar sign, a backslash, a space, a newline or a letter
MaxChars == 6

LatexChars == {"$", BS, " ", NL, "x"}

LatexTexts == UNION {[1..n -> LatexChars] : n \in 0..MaxChars}

InitLatex ==
    /\ ParserIdle
    /\ RendererDefaults
    /\ ret = Idle
    /\ ExporterIdle
    /\ QtIdle
    /\ ltext \in LatexTexts
    /\ lret = Idle

call_rm_math_space ==
    /\ lret.outcome = "idle"
    /\ lret' = Returned("rm_math_space", <<ltext>>, rm_math_space(ltext), {})
    /\ UNCHANGED ltext
    /\ UNCHANGED <<pvars, rvars, ret, evars, qvars>>

NextLatex == call_rm_math_space

SpecLatex == InitLatex /\ [][NextLatex]_vars

\* ------------------------------------------------------------------ properties

HasNewline(t) == \E k \in 1..Len(t) : t[k] = NL

\* the positions of the backslashes of the source
BackslashAt == {p \in 1..Len(src) : src[p] = BS}

\* no dollar sign and no backslash before position i: nothing before i opens math
PlainBefore(s, i) == \A k \in 1..(i - 1) : s[k] \notin {"$", BS}

\* the characters that a heading, a list item or a block quote begins with
BlockMarkers == {"#", "*", "+", "-", ">"}

\* no such character before position i: no block rule but multiline_math and
\* blank_line acts on the text before i
NoMarkerBefore(s, i) == \A k \in 1..(i - 1) : s[k] \notin BlockMarkers

MathTypes == {"block_math", "inline_math", "latex_environment"}

MathTokens == {k \in 1..Len(itokens) : itokens[k].type \in MathTypes}

\* the tokens whose source shares a character with s[i .. j-1]
Overlapping(i, j) == {k \in MathTokens : itokens[k].from < j /\ itokens[k].to > i}

\* a balanced $$...$$ span: $$ at i and the next $$ at j, neither right after a
\* backslash (nor, for the opening one, after another dollar sign), and a
\* newline in the body
DisplaySpan(i, j) ==
    /\ At(src, i, <<"$", "$">>) /\ Prev(src, i) \notin {BS, "$"}
    /\ j >= i + 2
    /\ At(src, j, <<"$", "$">>) /\ Prev(src, j) # BS
    /\ \A k \in (i + 2)..(j - 1) : ~(At(src, k, <<"$", "$">>) /\ Prev(src, k) # BS)
    /\ HasNewline(Slice(src, i + 2, j))

\* exactly one math token comes from the span, a block_math token whose raw is
\* the source between the delimiters
OneBlockMath(i, j) ==
    /\ Cardinality(Overlapping(i, j + 2)) = 1
    /\ \A k \in Overlapping(i, j + 2) :
          /\ itokens[k].type = "block_math"
          /\ itokens[k].from = i /\ itokens[k].to = j + 2
          /\ itokens[k].raw = Slice(src, i + 2, j)

C2_CurrencyIsNotMath ==
    pc = "done" /\ (\E i \in 1..Len(src) : At(src, i, CURRENCY))
        => \A k \in MathTokens : itokens[k].type # "inline_math"

\* C2, amended: where the currency text stands with no dollar sign and no
\* backslash before it, its two dollar signs delimit one inline_math token whose
\* raw is the text between them, "5 and "; the rule has no guard for currency.
C2_CurrencyIsInlineMath ==
    pc = "done" =>
        \A i \in 1..Len(src) :
            At(src, i, CURRENCY) /\ PlainBefore(src, i) =>
                \E k \in MathTokens :
                    /\ itokens[k].type = "inline_math"
                    /\ itokens[k].from = i /\ itokens[k].to = i + 8
                    /\ itokens[k].raw = <<"5", " ", "a", "n", "d", " ">>
                    /\ Overlapping(i, i + Len(CURRENCY)) = {k}

\* the currency text, after plain text, has been parsed
C2_Witness ==
    /\ pc = "done"
    /\ \E i \in 2..Len(src) : At(src, i, CURRENCY) /\ PlainBefore(src, i)
    /\ \E k \in MathTokens : itokens[k].type = "inline_math"

\* the environment names of the model's texts
Names == {<<"a">>, <<"b">>, <<"a", "*">>}

BeginOf(n) == BEGIN_OPEN \o n \o <<"}">>
EndOf(n) == END_OPEN \o n \o <<"}">>

\* the source is \begin{n}body\end{n} and the body has no \end{n}
IsEnvironment(n) ==
    /\ Len(src) > Len(BeginOf(n)) + Len(EndOf(n))
    /\ At(src, 1, BeginOf(n))
    /\ At(src, Len(src) - Len(EndOf(n)), EndOf(n))
    /\ src[Len(src)] = NL
    /\ \A k \in 1..(Len(src) - Len(EndOf(n)) - 1) : ~At(src, k, EndOf(n))

BodyOf(n) == Slice(src, Len(BeginOf(n)) + 1, Len(src) - Len(EndOf(n)))

\* C6: \begin{name}body\end{name}, the body without \end{name}, parses to one
\* latex_environment token with that name and body, and renders to
\* \begin{name}, the body with &, < and > escaped, \end{name}.
C6_EnvironmentRoundTrip ==
    pc = "done" =>
        \A n \in Names :
            IsEnvironment(n) =>
                /\ Len(itokens) = 1
                /\ itokens[1].type = "latex_environment"
                /\ itokens[1].name = n
                /\ itokens[1].raw = BodyOf(n)
                /\ out = <<BeginOf(n) \o html_escape(BodyOf(n)) \o EndOf(n)>>

\* an environment whose body has a character that is escaped has been rendered
C6_Witness ==
    /\ pc = "done"
    /\ IsEnvironment(<<"a", "*">>)
    /\ \E k \in 1..Len(BodyOf(<<"a", "*">>)) : BodyOf(<<"a", "*">>)[k] = "&"
    /\ Len(out) = 1
    /\ Len(out[1]) > Len(src) - 1

\* \begin{n} at i with no \end{n} after it
UnmatchedBegin(i, n) ==
    /\ At(src, i, BeginOf(n))
    /\ \A k \in (i + 1)..Len(src) : ~At(src, k, EndOf(n))

\* the source is \begin{a}body\end{b} with a # b and a body of plain text
IsMismatched ==
    \E a \in Names, b \in Names :
        /\ a # b
        /\ Len(src) > Len(BeginOf(a)) + Len(EndOf(b))
        /\ At(src, 1, BeginOf(a))
        /\ At(src, Len(src) - Len(EndOf(b)), EndOf(b))
        /\ src[Len(src)] = NL
        /\ \A k \in (Len(BeginOf(a)) + 1)..(Len(src) - Len(EndOf(b)) - 1) :
              src[k] \notin {"$", BS}

\* C7: a \begin{name} with no \end{name} after it starts no multiline_math match
\* of the block parser and no latex_environment token; \begin{a}...\end{b} with
\* a # b around plain text yields no math token at all, its text goes through
\* the inherited rules, and the conversion goes on to its end.
C7_UnmatchedIsNoMath ==
    /\ \A i \in BackslashAt, n \in Names :
          UnmatchedBegin(i, n) =>
              /\ ~(pc = "block" /\ m.rule = "multiline_math" /\ m.m.start = i)
              /\ \A k \in 1..Len(itokens) :
                    itokens[k].type = "latex_environment" => itokens[k].from # i
    /\ IsMismatched =>
          /\ MathTokens = {}
          /\ pc \in {"block", "inline"} => m.rule \in {"none", "blank_line", "escape",
                                                    "softbreak", "linebreak", "link"}
          /\ pc # "done" => ENABLED Next

\* \begin{a}, a body with a newline, \end{b}: converted, the newline a soft break
C7_Witness ==
    /\ pc = "done"
    /\ IsMismatched
    /\ UnmatchedBegin(1, <<"a">>)
    /\ \E k \in 1..Len(itokens) : itokens[k].type = "softbreak"

\* ------------------------------------------------------------------ properties of the calls

\* the call that has just ended is an image call on an attachment reference
IsAttachmentCall == ret.op = "image" /\ At(ret.args.url, 1, ATTACHMENT_PREFIX)

\* the name an attachment reference gives
ReferredName == SubSeq(ret.args.url, Len(ATTACHMENT_PREFIX) + 1, Len(ret.args.url))

\* C3: an image call on attachment:<name> whose name is not a key of the
\* attachment map raises InvalidNotebook and returns no markup, whatever
\* embed_images is.
C3_MissingAttachmentRaises ==
    (IsAttachmentCall /\ ReferredName \notin DOMAIN attachments)
        => /\ ret.outcome = "raise"
           /\ ret.exc = "InvalidNotebook"
           /\ ret.value = <<>>
           /\ "super.image" \notin ret.calls

C3_Witness ==
    /\ IsAttachmentCall
    /\ ReferredName = MissingName
    /\ embed_images
    /\ attachments # <<>>
    /\ ret.exc = "InvalidNotebook"

\* C4 (as the specification states it): the only error that escapes a call of
\* the renderer is InvalidNotebook, raised by an image call on an attachment
\* name that is not in the attachment map; every other failed lookup returns.
C4_OnlyInvalidNotebookEscapes ==
    ret.outcome = "raise"
        => /\ ret.exc = "InvalidNotebook"
           /\ IsAttachmentCall
           /\ ReferredName \notin DOMAIN attachments

\* the types of an attachment
TypesOf(entry) == {entry[k][1] : k \in 1..Len(entry)}

\* the data an attachment holds under a type
DataUnder(entry, mime) == {entry[k][2] : k \in {j \in 1..Len(entry) : entry[j][1] = mime}}

LeadingWords(info) ==
    {SubSeq(info, 1, k) : k \in {j \in 1..Len(info) :
        /\ \A i \in 1..j : info[i] \notin Whitespace
        /\ j = Len(info) \/ info[j + 1] \in Whitespace}}

\* the call that has just ended is a block_code call whose fence-info names no
\* highlighter and no mermaid diagram
IsUnknownInfoCall ==
    /\ ret.op = "block_code"
    /\ ret.args.info # <<>>
    /\ ~At(ret.args.info, 1, MERMAID)
    /\ \A w \in LeadingWords(ret.args.info) : w \notin KnownLexers

\* C8 (as the specification states it): a block_code call whose fence-info
\* names no known highlighter returns the plain block whose body is the
\* fence-info text, a newline and the code; the highlighter is not invoked and
\* nothing is raised.
C8_UnknownInfoIsPrepended ==
    IsUnknownInfoCall
        => /\ ret.outcome = "return"
           /\ ret.value.kind = "plain"
           /\ ret.value.code = ret.args.info \o <<NL>> \o ret.args.code
           /\ "highlight" \notin ret.calls

\* C8 (amended): the body is the first word of the fence-info, a newline and
\* the code; the rest of the fence-info is dropped.
C8_UnknownWordIsPrepended ==
    IsUnknownInfoCall
        => /\ ret.outcome = "return"
           /\ ret.value.kind = "plain"
           /\ \E w \in LeadingWords(ret.args.info) :
                ret.value.code = w \o <<NL>> \o ret.args.code
           /\ "highlight" \notin ret.calls

C8_Witness ==
    /\ IsUnknownInfoCall
    /\ ret.args.info = NOLANG \o <<" ", "x">>
    /\ ret.value.kind = "plain"
    /\ ret.value.code = NOLANG \o <<NL, "c">>

\* the visible text of the heading the call was made on
VisibleText == Flatten([k \in 1..Len(ret.args.text) |-> ret.args.text[k].text])

\* the anchor link of a rendered heading: its last child
AnchorOf(h) == h.children[Len(h.children)]

\* the call that has just ended is a heading call of a renderer that links
IsAnchoredHeading == ret.op = "heading" /\ ~exclude_anchor_links

C10_ExcludedAnchorLinks ==
    (ret.op = "heading" /\ exclude_anchor_links)
        => /\ ret.outcome = "return"
           /\ ret.value = base_heading(ret.args.text, ret.args.level)
           /\ \A k \in 1..Len(ret.value.children) : ret.value.children[k].tag # "a"
           /\ "add_anchor" \notin ret.calls

C10_Witness ==
    /\ ret.op = "heading"
    /\ exclude_anchor_links
    /\ ret.args.text = <<TextNode("H"), TextNode(" ")>>
    /\ ret.value.id = <<>>

\* the call that has just ended is an image call on a URL of another scheme
IsLocalImageCall == ret.op = "image" /\ ~At(ret.args.url, 1, ATTACHMENT_PREFIX)

\* the path the URL of the call names on the file system
LocalPath == JoinPath(path, ret.args.url)

\* a regular file is at the path
IsFile(name) == name \in DOMAIN Files /\ Files[name].kind = "file"

\* C11 (as the specification states it): with embed_images, an image call on a
\* URL of another scheme than attachment: hands on the base64 data URL of the
\* file at the base path joined with the URL when that file exists; when it
\* does not, the URL is handed on as given and nothing is raised.
C11_EmbedOrKeep ==
    (IsLocalImageCall /\ embed_images)
        => /\ ret.outcome = "return"
           /\ IsFile(LocalPath)
                => ret.value.url = DataUrl(GuessType(LocalPath),
                                           b64encode(Files[LocalPath].data))
           /\ ~IsFile(LocalPath) => ret.value.url = ret.args.url

\* the file system has been looked at during the call
FilesTouched == ret.calls \cap {"os.path.exists", "open"} # {}

\* C12: an attachment: URL is resolved from the attachment map and never from
\* the file system, also with embed_images; another URL is looked up on the
\* file system only with embed_images; without embed_images it is handed on
\* unchanged and no file is touched.
C12_ResolutionOrder ==
    /\ IsAttachmentCall =>
          /\ ~FilesTouched
          /\ ret.outcome = "return" =>
                /\ ReferredName \in DOMAIN attachments
                /\ \E k \in 1..Len(attachments[ReferredName]) :
                      ret.value.url = DataUrl(attachments[ReferredName][k][1],
                                              attachments[ReferredName][k][2])
    /\ (IsLocalImageCall /\ embed_images) => "os.path.exists" \in ret.calls
    /\ (IsLocalImageCall /\ ~embed_images) =>
          /\ ~FilesTouched
          /\ ret.outcome = "return"
          /\ ret.value.url = ret.args.url

\* an attachment is resolved from the map although embed_images is set and a
\* file of the name of the URL exists
C12_Witness ==
    /\ IsAttachmentCall
    /\ embed_images
    /\ IsFile(LocalPath)
    /\ ret.outcome = "return"
    /\ ret.value.url = DataUrl(PNG, DataFor(PNG))

\* the call that has just ended is a block_html or an inline_html call
IsHtmlCall == ret.op \in {"block_html", "inline_html"}

\* C13 (as the specification states it): with embed_images, block_html and
\* inline_html replace the src of every img whose src names an existing file by
\* the data URL image would produce, and leave every other node as it is apart
\* from the form of the markup; without embed_images the fragment is handed on
\* as given and is not parsed.
C13_HtmlImagesEmbedded ==
    IsHtmlCall =>
        LET html == ret.args.html
        IN  /\ ret.outcome = "return"
            /\ embed_images =>
                 /\ Len(ret.value) = Len(html)
                 /\ \A k \in 1..Len(html) :
                      /\ ret.value[k].tag = html[k].tag
                      /\ ret.value[k].has_src = html[k].has_src
                      /\ ret.value[k].src =
                            IF html[k].tag = "img" /\ html[k].has_src
                               /\ IsFile(JoinPath(path, html[k].src))
                            THEN DataUrl(GuessType(JoinPath(path, html[k].src)),
                                         b64encode(Files[JoinPath(path, html[k].src)].data))
                            ELSE html[k].src
            /\ ~embed_images =>
                 /\ ret.value = html
                 /\ "bs4.BeautifulSoup" \notin ret.calls

\* the code without the whitespace around it
Stripped(code) ==
    LET parts == {<<>>} \cup {SubSeq(code, a, b) : a \in 1..Len(code), b \in 1..Len(code)}
    IN  {c \in parts :
            /\ c = <<>> \/ (c[1] \notin Whitespace /\ c[Len(c)] \notin Whitespace)
            /\ \E pre, post \in parts :
                  /\ code = pre \o c \o post
                  /\ \A k \in 1..Len(pre) : pre[k] \in Whitespace
                  /\ \A k \in 1..Len(post) : post[k] \in Whitespace}

\* C14: block_code returns the mermaid container around the stripped code
\* exactly when the fence-info names a mermaid diagram, that is, starts with
\* the word mermaid; the lexer lookup and the highlighter are then not invoked,
\* and no other fence-info yields the container.
C14_MermaidContainer ==
    ret.op = "block_code" =>
        /\ ret.outcome = "return"
        /\ ret.value.kind = "mermaid" <=> At(ret.args.info, 1, MERMAID)
        /\ ret.value.kind = "mermaid" =>
              /\ ret.value.code \in Stripped(ret.args.code)
              /\ ret.calls \cap {"get_lexer_by_name", "highlight"} = {}

C14_Witness ==
    /\ ret.op = "block_code"
    /\ ret.args.info = MERMAID \o <<"j", "s">>
    /\ ret.args.code = <<" ", "c", NL>>
    /\ ret.value.kind = "mermaid"
    /\ ret.value.code = <<"c">>

\* ------------------------------------------------------------------ C15

\* the text with & written &amp;, < written &lt; and > written &gt;, and every
\* other character as it is
RECURSIVE Escaped(_)
Escaped(t) ==
    IF t = <<>> THEN <<>>
    ELSE (CASE Head(t) = "&" -> <<"&", "a", "m", "p", ";">>
            [] Head(t) = "<" -> <<"&", "l", "t", ";">>
            [] Head(t) = ">" -> <<"&", "g", "t", ";">>
            [] OTHER -> <<Head(t)>>) \o Escaped(Tail(t))

\* the length of the delimiter the source of math token k has on each side: the
\* dollar signs, or the two backslashes and the bracket
DelimiterLen(k) ==
    IF src[itokens[k].from] # "$" THEN 3
    ELSE IF itokens[k].type = "block_math" THEN 2 ELSE 1

\* the source between the delimiters of math token k
SourceBody(k) ==
    Slice(src, itokens[k].from + DelimiterLen(k), itokens[k].to - DelimiterLen(k))

\* C15: block_math renders `$$` + escape(body) + `$$` and inline_math renders
\* `$` + escape(body) + `$`, whichever delimiter family the source used; escape
\* replaces only &, < and >; the body is the source between the delimiters,
\* taken as it is and never parsed: no other token comes from it.
C15_MathIsEscapedAndRewrapped ==
    pc = "done" =>
        \A k \in 1..Len(itokens) :
            /\ itokens[k].type = "block_math" =>
                  out[k] = <<"$", "$">> \o Escaped(SourceBody(k)) \o <<"$", "$">>
            /\ itokens[k].type = "inline_math" =>
                  out[k] = <<"$">> \o Escaped(SourceBody(k)) \o <<"$">>
            /\ itokens[k].type \in {"block_math", "inline_math"} =>
                  /\ itokens[k].raw = SourceBody(k)
                  /\ \A j \in 1..Len(itokens) :
                        j # k => \/ itokens[j].to <= itokens[k].from
                                 \/ itokens[j].from >= itokens[k].to

\* inline math in the LaTeX delimiters whose body is <'> has been rendered
C15_Witness ==
    /\ pc = "done"
    /\ \E k \in 1..Len(itokens) :
          /\ itokens[k].type = "inline_math"
          /\ src[itokens[k].from] = BS
          /\ itokens[k].raw = <<"<", "'", ">">>
          /\ out[k] = <<"$", "&", "l", "t", ";", "'", "&", "g", "t", ";", "$">>

\* ------------------------------------------------------------------ C16

\* the calls that convert the notebook or start a browser
ExportCalls == {"HTMLExporter.from_notebook_node", "download_chromium", "launch",
                "page.pdf", "browser.close"}

Called(c) == \E k \in 1..Len(trace) : trace[k] = c

\* C16: when allow_chromium_download is false and no suitable chromium is
\* found, from_notebook_node raises RuntimeError, and nothing but the check has
\* been called by then: no HTML conversion and no browser.  When
\* allow_chromium_download is true the check is not made and the export goes on
\* to the HTML conversion.
C16_NoChromiumRaisesFirst ==
    epc # "check" =>
        /\ (~allow_chromium_download /\ ~chromium) =>
              /\ epc = "done"
              /\ result.outcome = "raise" /\ result.exc = "RuntimeError"
              /\ trace = <<"check_chromium">>
        /\ allow_chromium_download =>
              /\ ~Called("check_chromium")
              /\ epc = "convert" \/ Called("HTMLExporter.from_notebook_node")
              /\ result.exc # "RuntimeError"

\* the export of a notebook with cells has been refused
C16_Witness ==
    /\ epc = "done"
    /\ ~allow_chromium_download /\ ~chromium
    /\ Len(nb) = MaxCells
    /\ result.exc = "RuntimeError"

\* ------------------------------------------------------------------ C17

\* a bracket span with one backslash before each bracket: \[ at i and the next
\* \] at j, no further backslash before either, and a newline in the body
OneBackslashSpan(i, j) ==
    /\ At(src, i, <<BS, "[">>) /\ Prev(src, i) # BS
    /\ j >= i + 2
    /\ At(src, j, <<BS, "]">>) /\ Prev(src, j) # BS
    /\ \A k \in (i + 2)..(j - 1) : ~At(src, k, <<BS, "]">>)
    /\ HasNewline(Slice(src, i + 2, j))

\* a bracket span with two backslashes before each bracket: \\[ at i and the
\* next \\] at j, no third backslash before it, and a newline in the body
TwoBackslashSpan(i, j) ==
    /\ At(src, i, <<BS, BS, "[">>)
    /\ j >= i + 3
    /\ At(src, j, <<BS, BS, "]">>) /\ Prev(src, j) # BS
    /\ \A k \in (i + 3)..(j - 1) : ~At(src, k, <<BS, BS, "]">>)
    /\ HasNewline(Slice(src, i + 3, j))

\* the source from i up to j lies within one paragraph token
InOneParagraph(i, j) ==
    \E k \in 1..Len(tokens) :
        /\ tokens[k].type = "paragraph"
        /\ tokens[k].from <= i
        /\ tokens[k].from + Len(tokens[k].text) >= j

\* a block_math token whose source is src[i .. j-1] and whose raw is raw, and
\* no other math token from there
BlockMathFrom(i, j, raw) ==
    /\ Cardinality(Overlapping(i, j)) = 1
    /\ \A k \in Overlapping(i, j) :
          /\ itokens[k].type = "block_math"
          /\ itokens[k].from = i /\ itokens[k].to = j
          /\ itokens[k].raw = raw

IsSuffix(span, text) ==
    /\ Len(span) <= Len(text)
    /\ SubSeq(text, Len(text) - Len(span) + 1, Len(text)) = span

\* a step of the block parser on a match of multiline_math: the tokens there
\* were stay, at most one token is new, and the last token is a paragraph whose
\* text ends with the whole span and reaches to the span's end, where the
\* cursor goes
SpanJoinsParagraph ==
    LET n == Len(tokens')
        span == Slice(src, m.m.start, m.m.end)
    IN  /\ n >= 1 /\ n <= Len(tokens) + 1 /\ n >= Len(tokens)
        /\ \A k \in 1..(Len(tokens) - 1) : tokens'[k] = tokens[k]
        /\ tokens'[n].type = "paragraph"
        /\ IsSuffix(span, tokens'[n].text)
        /\ tokens'[n].from + Len(tokens'[n].text) = m.m.end
        /\ cursor' = m.m.end

\* a step of the block parser never goes back: the cursor does not retreat and
\* a new token starts at or after the place the cursor had
NoGoingBack ==
    /\ cursor' >= cursor
    /\ \A k \in (Len(tokens) + 1)..Len(tokens') : tokens'[k].from >= cursor

\* the spans of the model's texts whose bodies are the heading line, the list
\* item, the quote and the blank lines
LineSpans == {TEX_LINES, LATEX_LINES, ENV_LINES}

\* no heading, list, quote or blank-line token starts within src[i .. j-1]
NoBlockTokenIn(i, j) ==
    \A k \in 1..Len(tokens) :
        tokens[k].type # "paragraph" => tokens[k].from < i \/ tokens[k].from >= j

\* C18: a span matched by the multiline-math rule goes whole into one paragraph
\* token, the paragraph of the text before it, and the block parser goes on
\* after the span: the heading, list-item and quote lines and the blank lines
\* inside it produce no heading, list, quote or blank-line token and split no
\* paragraph.
C18_SpanIsOneParagraph ==
    /\ [][pc = "block" =>
            /\ m.rule = "multiline_math" => SpanJoinsParagraph
            /\ NoGoingBack]_vars
    /\ [](pc = "done" =>
            \A i \in 1..Len(src) : \A span \in LineSpans :
                At(src, i, span) /\ PlainBefore(src, i) /\ NoMarkerBefore(src, i)
                    => /\ InOneParagraph(i, i + Len(span))
                       /\ NoBlockTokenIn(i, i + Len(span)))

\* a $$ span with a heading line, a list item, a quote and blank lines inside
\* has been parsed, after text on its first line: all in one paragraph
C18_Witness ==
    /\ pc = "done"
    /\ \E i \in 2..Len(src) :
          /\ At(src, i, TEX_LINES) /\ PlainBefore(src, i)
          /\ InOneParagraph(1, i + Len(TEX_LINES))
          /\ \A k \in 1..Len(tokens) : tokens[k].type \notin {"heading", "list", "block_quote"}

\* ------------------------------------------------------------------ C19

\* the inline_math tokens that come from the $...$ rule
DollarTokens == {k \in MathTokens : itokens[k].type = "inline_math" /\ src[itokens[k].from] = "$"}

\* the character of src at position p, "" outside the text
CharAt(p) == IF p >= 1 /\ p <= Len(src) THEN src[p] ELSE ""

\* C19 as stated: every inline_math token of the $...$ rule has a non-empty
\* body, and neither the character before nor the character after its opening
\* $, nor the one before or after its closing $, is a $ or a backslash.
C19_DollarsStandAlone ==
    pc = "done" =>
        \A k \in DollarTokens :
            /\ itokens[k].raw # <<>>
            /\ CharAt(itokens[k].from - 1) \notin {"$", BS}
            /\ CharAt(itokens[k].from + 1) \notin {"$", BS}
            /\ CharAt(itokens[k].to - 2) \notin {"$", BS}
            /\ CharAt(itokens[k].to) \notin {"$", BS}

\* C19, amended: every inline_math token of the $...$ rule has a non-empty
\* body, its source is $, the body, $, and the character immediately before its
\* opening $ and the character immediately before its closing $ are neither a
\* $ nor a backslash.  The characters after the two $ are not looked at: the
\* body may begin with a backslash or a $, and a $ may follow the closing $.
C19_NothingBeforeDollars ==
    pc = "done" =>
        \A k \in DollarTokens :
            /\ itokens[k].raw # <<>>
            /\ itokens[k].to - itokens[k].from = Len(itokens[k].raw) + 2
            /\ CharAt(itokens[k].to - 1) = "$"
            /\ CharAt(itokens[k].from - 1) \notin {"$", BS}
            /\ CharAt(itokens[k].to - 2) \notin {"$", BS}

\* inline math whose closing $ another $ follows has been parsed
C19_Witness ==
    /\ pc = "done"
    /\ \E k \in DollarTokens : CharAt(itokens[k].to) = "$"

\* ------------------------------------------------------------------ C20

\* the token of a math rule: its type, its raw, and where its source ends
IsTokenOf(tok, type, match) ==
    /\ tok.type = type
    /\ tok.raw = match.body
    /\ tok.to = ioff + match.end

\* the token a step of the inline parser has just appended is the token of the
\* first rule, in the order block_math_tex, block_math_latex, inline_math_tex,
\* inline_math_latex, latex_environment, whose pattern matches at the position
\* of the match, and a token of an inherited rule only when none of them does
FirstRuleApplied ==
    LET p == m.m.start
        tok == itokens'[Len(itokens')]
    IN  /\ Len(itokens') >= 1
        /\ tok.from = ioff + p
        /\ IF BLOCK_MATH_TEX(isrc, p).ok
           THEN IsTokenOf(tok, "block_math", BLOCK_MATH_TEX(isrc, p))
           ELSE IF BLOCK_MATH_LATEX(isrc, p).ok
           THEN IsTokenOf(tok, "block_math", BLOCK_MATH_LATEX(isrc, p))
           ELSE IF INLINE_MATH_TEX(isrc, p).ok
           THEN IsTokenOf(tok, "inline_math", INLINE_MATH_TEX(isrc, p))
           ELSE IF INLINE_MATH_LATEX(isrc, p).ok
           THEN IsTokenOf(tok, "inline_math", INLINE_MATH_LATEX(isrc, p))
           ELSE IF LATEX_ENVIRONMENT(isrc, p).ok
           THEN /\ IsTokenOf(tok, "latex_environment", LATEX_ENVIRONMENT(isrc, p))
                /\ tok.name = LATEX_ENVIRONMENT(isrc, p).name
           ELSE tok.type \notin MathTypes

\* C20: at the position of every match of the inline scanner, the rule applied
\* is the first of block_math_tex, block_math_latex, inline_math_tex,
\* inline_math_latex, latex_environment that matches there, and an inherited
\* rule only when no math rule matches there; and $$x$$ that the scan reaches
\* (no dollar sign and no backslash before it) yields one block_math token with
\* raw x and no inline_math token.
C20_FirstRuleWins ==
    /\ [][pc = "inline" /\ m.rule # "none" => FirstRuleApplied]_vars
    /\ [](pc = "done" =>
            \A i \in 1..Len(src) :
                At(src, i, XX) /\ PlainBefore(src, i)
                    => BlockMathFrom(i, i + Len(XX), <<"x">>))

\* the scanner has just passed a position where both block_math_tex and
\* inline_math_tex match, the start of $$x$$ after text, with a block_math
\* token
C20_Witness ==
    /\ pc = "inline"
    /\ Len(itokens) >= 1
    /\ LET tok == itokens[Len(itokens)]
       IN  /\ tok.type = "block_math" /\ tok.raw = <<"x">>
           /\ tok.from > 1
           /\ At(src, tok.from, XX)
           /\ INLINE_MATH_TEX(isrc, tok.from - ioff).ok

\* ------------------------------------------------------------------ C21

\* the source between the delimiters of math token k: for an environment,
\* between \begin{name} and \end{name}
Between(k) ==
    IF itokens[k].type = "latex_environment"
    THEN Slice(src, itokens[k].from + Len(BeginOf(itokens[k].name)),
               itokens[k].to - Len(EndOf(itokens[k].name)))
    ELSE SourceBody(k)

\* the source of math token k begins and ends with delimiters of one kind
HasDelimiters(k) ==
    LET i == itokens[k].from
        j == itokens[k].to
    IN  IF itokens[k].type = "latex_environment"
        THEN /\ At(src, i, BeginOf(itokens[k].name))
             /\ At(src, j - Len(EndOf(itokens[k].name)), EndOf(itokens[k].name))
        ELSE IF itokens[k].type = "block_math"
        THEN \/ At(src, i, <<"$", "$">>) /\ At(src, j - 2, <<"$", "$">>)
             \/ At(src, i, <<BS, BS, "[">>) /\ At(src, j - 3, <<BS, BS, "]">>)
        ELSE \/ At(src, i, <<"$">>) /\ At(src, j - 1, <<"$">>)
             \/ At(src, i, <<BS, BS, "(">>) /\ At(src, j - 3, <<BS, BS, ")">>)

\* C21: the raw (for an environment, the body) of every math token is the
\* source between the token's delimiters, character for character, and no
\* other inline token, of a math rule or of an inherited rule, comes from a
\* character of the span.
C21_RawIsExactAndOpaque ==
    pc = "done" =>
        \A k \in MathTokens :
            /\ HasDelimiters(k)
            /\ itokens[k].raw = Between(k)
            /\ \A j \in 1..Len(itokens) :
                  j # k => \/ itokens[j].to <= itokens[k].from
                           \/ itokens[j].from >= itokens[k].to

\* inline math whose body is \\(x\\), on which the escape rule and the
\* inline_math_latex rule would act outside math, has been parsed into one token
C21_Witness ==
    /\ pc = "done"
    /\ \E k \in MathTokens :
          /\ itokens[k].type = "inline_math"
          /\ itokens[k].raw = PARENS
          /\ Cardinality(MathTokens) = 1

\* the position where the line of position p begins
RECURSIVE LineBegin(_)
LineBegin(p) == IF p = 1 \/ src[p - 1] = NL THEN p ELSE LineBegin(p - 1)

\* the number of characters c in a row from position p on
RECURSIVE RunOf(_, _)
RunOf(c, p) == IF p <= Len(src) /\ src[p] = c THEN 1 + RunOf(c, p + 1) ELSE 0

\* the spaces a line begins with, and the # after them
IndentOf(b) == RunOf(" ", b)
HashesOf(b) == RunOf("#", b + IndentOf(b))

\* the lines of the source, by their first positions
LineBegins == {p \in 1..Len(src) : p = 1 \/ src[p - 1] = NL}

\* the heading tokens that stand on the line that begins at b
HeadingsOn(b) ==
    {k \in DOMAIN tokens : tokens[k].type = "heading" /\ LineBegin(tokens[k].from) = b}

\* C22: a heading token stands only on a line of at most three spaces and one to
\* six # after them, its level is the number of these #, and a line of four
\* or more spaces or of seven or more # has no heading token
C22_HeadingLevelIsHashCount ==
    /\ \A k \in DOMAIN tokens :
        tokens[k].type = "heading" =>
            LET b == LineBegin(tokens[k].from)
            IN  /\ IndentOf(b) <= 3
                /\ HashesOf(b) \in 1..6
                /\ tokens[k].level = HashesOf(b)
    /\ pc = "done" =>
        \A b \in LineBegins :
            IndentOf(b) >= 4 \/ HashesOf(b) >= 7 => HeadingsOn(b) = {}

\* a source with a heading of level six after three spaces, and a line of
\* seven # that is no heading, converted
C22_Witness ==
    /\ pc = "done"
    /\ \E b \in LineBegins : \E k \in HeadingsOn(b) :
        IndentOf(b) = 3 /\ tokens[k].level = 6
    /\ \E b \in LineBegins : HashesOf(b) >= 7 /\ HeadingsOn(b) = {}

\* C23: no call of a rendering method, whether it returns or raises
\* InvalidNotebook, changes embed_images, exclude_anchor_links,
\* anchor_link_text, path or the attachments: through every sequence of calls
\* they keep the values of the construction.
C23_RenderStateIsKept == [][rvars' = rvars]_vars

\* an image call has raised InvalidNotebook on a renderer that embeds images
\* and has an attachment
C23_Witness ==
    /\ ret.op = "image"
    /\ ret.outcome = "raise"
    /\ ret.exc = "InvalidNotebook"
    /\ embed_images
    /\ attachments # <<>>

\* ------------------------------------------------------------------ C24

\* C24: once run_pyqtwebengine has returned or has let an error out, whatever
\* the outcome, the temporary html file is not there any more.
C24_TempFileIsRemoved ==
    qpc = "done" /\ qresult.outcome \in {"return", "raise"} =>
        temp_file_name \notin temp_files

\* what holds: the file is removed on every outcome of the try block, that is
\* when the capture has ended, when the launch requirements have raised
\* RuntimeError and when the capture has raised
C24_RemovedAfterTry ==
    qpc = "done" /\ qresult.outcome \in {"return", "raise"}
        /\ qresult.exc \notin {"UnicodeEncodeError", "OSError"}
        => temp_file_name \notin temp_files

\* ------------------------------------------------------------------ C25

\* the dollar signs of the text that no backslash stands before
UnescapedAt(p) == ltext[p] = "$" /\ (p = 1 \/ ltext[p - 1] # BS)

\* the next such dollar sign after position p, 0 when there is none
NextDollar(p) ==
    LET after == {q \in (p + 1)..Len(ltext) : UnescapedAt(q)}
    IN  IF after = {} THEN 0 ELSE CHOOSE q \in after : \A r \in after : q <= r

\* the position of the second newline after position p, 0 when there is none
SecondNewline(p) ==
    LET lines == {q \in (p + 1)..Len(ltext) : ltext[q] = NL}
        second == {q \in lines : Cardinality({r \in lines : r < q}) = 1}
    IN  IF second = {} THEN 0 ELSE CHOOSE q \in second : TRUE

\* t without the white space at its ends
WithoutEnds(t) ==
    LET inner == {<<a, b>> \in (1..Len(t)) \X (1..Len(t)) :
                    /\ a <= b
                    /\ t[a] \notin Whitespace /\ t[b] \notin Whitespace
                    /\ \A k \in 1..(a - 1) : t[k] \in Whitespace
                    /\ \A k \in (b + 1)..Len(t) : t[k] \in Whitespace}
    IN  IF inner = {} THEN <<>>
        ELSE LET ab == CHOOSE ab \in inner : TRUE IN SubSeq(t, ab[1], ab[2])

\* the text from position p on as the regions say it is rewritten: a closed
\* region is $, its body without the white space at its ends, $; a region with
\* a second newline before its closing $ is given up and stands as it is up to
\* that newline; open tells that a $ with no closing $ was met, where the
\* rewriting stops
RECURSIVE Rewritten(_)
Rewritten(p) ==
    IF p > Len(ltext) THEN [out |-> <<>>, open |-> FALSE]
    ELSE IF ~UnescapedAt(p)
    THEN [Rewritten(p + 1) EXCEPT !.out = <<ltext[p]>> \o @]
    ELSE LET j == NextDollar(p)
             n == SecondNewline(p)
         IN  IF j # 0 /\ (n = 0 \/ j < n)
             THEN [Rewritten(j + 1) EXCEPT
                     !.out = <<"$">> \o WithoutEnds(Slice(ltext, p + 1, j)) \o <<"$">> \o @]
             ELSE IF n # 0
             THEN [Rewritten(n + 1) EXCEPT !.out = Slice(ltext, p, n + 1) \o @]
             ELSE [out |-> <<>>, open |-> TRUE]

IsPrefix(pre, t) == Len(pre) <= Len(t) /\ SubSeq(t, 1, Len(pre)) = pre

\* C25: the value of rm_math_space is the text with every closed region, from
\* a $ that no backslash precedes to the next such $ with fewer than two
\* newlines between them, rewritten as $, the body without the white space at
\* its ends, $; a $ after a backslash opens and closes nothing; a region with a
\* second newline before its closing $ stands unchanged from its $ up to that
\* newline.  This holds of the whole text when every $ finds its end, and of
\* the text before the first $ that finds none otherwise.
C25_RegionsAreStripped ==
    lret.outcome = "return" =>
        /\ IsPrefix(Rewritten(1).out, lret.value)
        /\ ~Rewritten(1).open => lret.value = Rewritten(1).out

\* the text $, two newlines, $, a space, $: a region given up at its second
\* newline and a closed region whose body is a space, rewritten
C25_Witness ==
    /\ lret.outcome = "return"
    /\ Len(ltext) >= 6
    /\ UnescapedAt(1) /\ SecondNewline(1) = 3 /\ NextDollar(1) = 4
    /\ NextDollar(4) = 6 /\ ltext[5] \in Whitespace
    /\ lret.value = SubSeq(ltext, 1, 3) \o <<"$", "$">>

\* ------------------------------------------------------------------ C26

\* t without its white space
RECURSIVE NoWhitespace(_)
NoWhitespace(t) ==
    IF t = <<>> THEN <<>>
    ELSE IF Head(t) \in Whitespace THEN NoWhitespace(Tail(t))
    ELSE <<Head(t)>> \o NoWhitespace(Tail(t))

\* C26: rm_math_space removes nothing but white space: the text and the value
\* without their white space are the same string, also when the text has a $
\* with no closing $ after it.
C26_OnlyWhitespaceIsRemoved ==
    lret.outcome = "return" => NoWhitespace(lret.value) = NoWhitespace(ltext)

\* ------------------------------------------------------------------ C27

\* C27: rm_math_space is idempotent: applied to its own value it returns the
\* value.
C27_Idempotent ==
    lret.outcome = "return" => rm_math_space(lret.value) = lret.value

====
